---- MODULE Spec2Model ----
(***************************************************************************)
(* A model of the velm editor (velm_core): the Editor event loop with its  *)
(* three tokio mpsc channels and spawned command tasks, the Mode state     *)
(* machine with its nom grammars, and the Window / Buffer / TextInput      *)
(* component tree over the Document / Row text model.                      *)
(*                                                                         *)
(* Text is a sequence of characters (Unicode scalar values), each written   *)
(* as a string; the token "U+0308" is the combining diaeresis, which       *)
(* extends the grapheme cluster of the character before it.                *)
(***************************************************************************)
EXTENDS Integers, Sequences, FiniteSets, Bags, TLC

(***************************************************************************)
(* Bounds of the model.                                                    *)
(***************************************************************************)
\* terminal size reported by Canvas::size()
TermWidth == 4
TermHeight == 4
\* most events the input stream yields in one run of the loop
MaxEvents == 4
\* longest key sequence fed to Normal.handle in the grammar harness
MaxKeys == 3
\* longest command line handed to Execute.parse in the grammar harness
MaxParseLen == 3

\* characters of a file that Document::open reads
MaxFileLen == 3

\* calls made on one Document, or on the two frames of a Viewport
MaxOps == 2

\* geometry of a Frame under test
FrameWidth == 2

FrameHeight == 2

\* calls of Viewport::render on one Viewport
MaxRenders == 3

\* sides and offsets of a Rect under test
MaxSide == 2
PromptWidth == 30

\* characters of a Row under test
MaxRowLen == 3

(***************************************************************************)
(* Generic helpers.                                                        *)
(***************************************************************************)
None == [type |-> "None"]

Min(a, b) == IF a < b THEN a ELSE b

Take(s, n) == SubSeq(s, 1, Min(n, Len(s)))

Skip(s, n) == SubSeq(s, Min(n, Len(s)) + 1, Len(s))

\* usize::saturating_sub
SatSub(a, b) == IF a >= b THEN a - b ELSE 0

SeqsUpTo(S, n) == UNION {[1..k -> S] : k \in 0..n}

Position(col, row) == [col |-> col, row |-> row]

\* `let x = e; F(x)`: e is evaluated once and F applied to its value
Bind(e, F(_)) == CHOOSE r \in {F(x) : x \in {e}} : TRUE

(***************************************************************************)
(* row.rs: Row                                                             *)
(***************************************************************************)
RowDefault == <<>>

\* the characters of grapheme category Extend in the model alphabet
Extend == {"U+0308"}

\* str::len of one character: its length in UTF-8 bytes
Utf8Len(c) == IF c \in Extend THEN 2 ELSE 1

RECURSIVE ByteLen(_)
ByteLen(r) == IF r = <<>> THEN 0 ELSE Utf8Len(Head(r)) + ByteLen(Tail(r))

\* graphemes(true): the indices at which a grapheme cluster starts; a
\* character of category Extend never starts one unless it is the first
ClusterStarts(r) == {i \in 1..Len(r) : i = 1 \/ r[i] \notin Extend}

\* the number of characters that make up the first n grapheme clusters
ClusterEnd(r, n) ==
    Bind(ClusterStarts(r), LAMBDA starts :
        IF n >= Cardinality(starts) THEN Len(r)
        ELSE (CHOOSE i \in starts : Cardinality({j \in starts : j < i}) = n) - 1)

\* graphemes(true).take(n).collect() and graphemes(true).skip(n).collect()
TakeGraphemes(r, n) == SubSeq(r, 1, ClusterEnd(r, n))

SkipGraphemes(r, n) == SubSeq(r, ClusterEnd(r, n) + 1, Len(r))

\* a len that counts scalar values (chars().count())
RowLen_scalars(r) == Len(r)

RowLen(r) == Cardinality(ClusterStarts(r))

\* graphemes(true): the grapheme clusters of a string, in order, each as its
\* characters
Graphemes(r) ==
    [k \in 1..RowLen(r) |-> SubSeq(r, ClusterEnd(r, k - 1) + 1, ClusterEnd(r, k))]

RowAppend(r, new) == r \o new

RowDelete(r, at) ==
    IF at >= RowLen(r) THEN r
    ELSE TakeGraphemes(r, at) \o SkipGraphemes(r, at + 1)

RowInsert(r, at, ch) ==
    IF at >= RowLen(r) THEN Append(r, ch)
    ELSE TakeGraphemes(r, at) \o <<ch>> \o SkipGraphemes(r, at)

\* split returns the pair <<self after the call, returned Row>>
\* a split that loses the grapheme at the split index
RowSplit_dropping(r, at) == <<TakeGraphemes(r, at), SkipGraphemes(r, at + 1)>>

RowSplit(r, at) == <<TakeGraphemes(r, at), SkipGraphemes(r, at)>>

\* to_string clamps `end` by the length in bytes, then skips and takes
\* grapheme clusters; a tab becomes a space
RowToString(r, start, end) ==
    LET e == Min(end, ByteLen(r))
        st == Min(start, e)
    IN  Bind(TakeGraphemes(SkipGraphemes(r, st), e - st), LAMBDA taken :
            [i \in 1..Len(taken) |-> IF taken[i] = "\t" THEN " " ELSE taken[i]])

RowContents(r) == RowToString(r, 0, RowLen(r))

(***************************************************************************)
(* document.rs: Document                                                   *)
(***************************************************************************)
\* Option<String> of a file name
SomeName(n) == [type |-> "SomeName", name |-> n]

DocumentDefault == [file_name |-> None, rows |-> <<RowDefault>>]

\* str::lines: the text up to each line feed, and a last line without one
\* when it is not empty (the alphabet has no carriage return)
RECURSIVE Lines(_)
Lines(contents) ==
    IF contents = <<>> THEN <<>>
    ELSE IF \E i \in 1..Len(contents) : contents[i] = "\n"
    THEN Bind(CHOOSE i \in 1..Len(contents) :
                 contents[i] = "\n" /\ \A j \in 1..(i - 1) : contents[j] # "\n",
              LAMBDA i : <<SubSeq(contents, 1, i - 1)>>
                            \o Lines(SubSeq(contents, i + 1, Len(contents))))
    ELSE <<contents>>

\* Document::open of a readable file with the given contents
DocOpen(filename, contents) == [file_name |-> SomeName(filename), rows |-> Lines(contents)]

DocLen(d) == Len(d.rows)

\* Option<&Row>: None when the index is past the last row
DocRow(d, index) == IF index < DocLen(d) THEN [type |-> "Some", row |-> d.rows[index + 1]] ELSE None

\* Row::len of the row at index, 0 when there is none (map_or(0, Row::len))
DocRowLenOr0(d, index) == IF index < DocLen(d) THEN RowLen(d.rows[index + 1]) ELSE 0

RemoveAt(s, i) == SubSeq(s, 1, i - 1) \o SubSeq(s, i + 1, Len(s))

InsertAt(s, i, e) == SubSeq(s, 1, i - 1) \o <<e>> \o SubSeq(s, i, Len(s))

\* a delete that joins the next row at every column from the end of the row on
DocDelete_joinPast(d, at) ==
    IF at.row >= DocLen(d) THEN d
    ELSE IF at.col >= RowLen(d.rows[at.row + 1]) /\ at.row < DocLen(d) - 1
    THEN [d EXCEPT !.rows =
            RemoveAt([d.rows EXCEPT ![at.row + 1] = RowAppend(@, d.rows[at.row + 2])], at.row + 2)]
    ELSE [d EXCEPT !.rows[at.row + 1] = RowDelete(@, at.col)]

DocDelete(d, at) ==
    IF at.row >= DocLen(d) THEN d
    ELSE IF at.col = RowLen(d.rows[at.row + 1]) /\ at.row < DocLen(d) - 1
    THEN [d EXCEPT !.rows =
            RemoveAt([d.rows EXCEPT ![at.row + 1] = RowAppend(@, d.rows[at.row + 2])], at.row + 2)]
    ELSE [d EXCEPT !.rows[at.row + 1] = RowDelete(@, at.col)]

\* an insert that treats every row past the last like the row after the last
DocInsert_lenient(d, at, ch) ==
    IF at.row >= DocLen(d)
    THEN [ok |-> TRUE, doc |-> [d EXCEPT !.rows = Append(@, RowInsert(RowDefault, 0, ch))]]
    ELSE [ok |-> TRUE, doc |-> [d EXCEPT !.rows[at.row + 1] = RowInsert(@, at.col, ch)]]

\* Result<()>: ok = FALSE is the out-of-range error, the document untouched
DocInsert(d, at, ch) ==
    IF at.row = DocLen(d)
    THEN [ok |-> TRUE, doc |-> [d EXCEPT !.rows = Append(@, RowInsert(RowDefault, 0, ch))]]
    ELSE IF at.row < DocLen(d)
    THEN [ok |-> TRUE, doc |-> [d EXCEPT !.rows[at.row + 1] = RowInsert(@, at.col, ch)]]
    ELSE [ok |-> FALSE, doc |-> d]

\* an insert_newline that puts the tail row before the split row
DocInsertNewline_before(d, at) ==
    IF at.row > DocLen(d) THEN d
    ELSE IF at.row = DocLen(d) THEN [d EXCEPT !.rows = Append(@, RowDefault)]
    ELSE Bind(RowSplit(d.rows[at.row + 1], at.col), LAMBDA sp :
            [d EXCEPT !.rows = InsertAt([d.rows EXCEPT ![at.row + 1] = sp[1]], at.row + 1, sp[2])])

DocInsertNewline(d, at) ==
    IF at.row > DocLen(d) THEN d
    ELSE IF at.row = DocLen(d) THEN [d EXCEPT !.rows = Append(@, RowDefault)]
    ELSE Bind(RowSplit(d.rows[at.row + 1], at.col), LAMBDA sp :
            [d EXCEPT !.rows = InsertAt([d.rows EXCEPT ![at.row + 1] = sp[1]], at.row + 2, sp[2])])

\* save(filename): the file-name assignment; io_ok is whether File::create and
\* every write_all succeed.  Returns the document, the file system and the Result.
\* what the write_all calls put into the file: every row, then a line feed
RECURSIVE FileContents(_)
FileContents(rows) ==
    IF rows = <<>> THEN <<>> ELSE Head(rows) \o <<"\n">> \o FileContents(Tail(rows))

\* a save that writes to the supplied name without recording it
DocSave_noRename(d, filename, files, io_ok) ==
    LET target == IF filename.type = "SomeName" THEN filename ELSE d.file_name
    IN  IF target.type = "SomeName"
        THEN IF io_ok
             THEN [ok |-> TRUE, doc |-> d,
                   files |-> (target.name :> FileContents(d.rows)) @@ files]
             ELSE [ok |-> FALSE, doc |-> d, files |-> files]
        ELSE [ok |-> TRUE, doc |-> d, files |-> files]

DocSave(d, filename, files, io_ok) ==
    LET d1 == IF filename.type = "SomeName" THEN [d EXCEPT !.file_name = filename] ELSE d
    IN  IF d1.file_name.type = "SomeName"
        THEN IF io_ok
             THEN [ok |-> TRUE, doc |-> d1,
                   files |-> (d1.file_name.name :> FileContents(d1.rows)) @@ files]
             ELSE [ok |-> FALSE, doc |-> d1, files |-> files]
        ELSE [ok |-> TRUE, doc |-> d1, files |-> files]

(***************************************************************************)
(* input.rs: Key and Event                                                 *)
(***************************************************************************)
Key(k) == [key |-> k]

KeyChar(c) == [key |-> "Char", ch |-> c]

KeyPressed(k) == [event |-> "KeyPressed", key |-> k]

ReadFailed == [event |-> "ReadFailed"]

\* MouseInputReceived and WindowResized are handled alike (the `_ => ()` arm)
MouseInputReceived == [event |-> "MouseInputReceived"]

(***************************************************************************)
(* mode.rs: Mode                                                           *)
(***************************************************************************)
NormalMode(buf) == [kind |-> "Normal", input_buffer |-> buf]

NormalDefault == NormalMode(<<>>)

InsertDefault == [kind |-> "Insert"]

ExecuteDefault == [kind |-> "Execute", row |-> RowDefault, cursor_position |-> Position(0, 0)]

ModeDefault == NormalDefault

(***************************************************************************)
(* communication.rs: Message and Command                                   *)
(***************************************************************************)
Msg(t) == [type |-> t]

MsgN(t, n) == [type |-> t, n |-> n]

InsertChar(ch) == [type |-> "InsertChar", ch |-> ch]

EnterMode(m) == [type |-> "EnterMode", mode |-> m]

ParseCommandLineInput(input) == [type |-> "ParseCommandLineInput", input |-> input]

SaveAs(name) == [type |-> "SaveAs", name |-> name]

Some(m) == [type |-> "Some", msg |-> m]

\* communication::wrap: the closure that returns msg
wrap(msg) == [cmd |-> msg]

\* calling the boxed closure
RunCommand(c) == c.cmd

(***************************************************************************)
(* nom combinators, as far as the grammars of mode.rs use them.  A parser  *)
(* result is [ok, rest, val]; every failure is a recoverable Err::Error.   *)
(***************************************************************************)
PErr == [ok |-> FALSE]

POk(rest, val) == [ok |-> TRUE, rest |-> rest, val |-> val]

p_char(c, input) ==
    IF input # <<>> /\ Head(input) = c THEN POk(Tail(input), c) ELSE PErr

p_one_of(cs, input) ==
    IF input # <<>> /\ Head(input) \in cs THEN POk(Tail(input), Head(input)) ELSE PErr

p_all_consuming(res) == IF res.ok /\ res.rest = <<>> THEN res ELSE PErr

p_value(v, res) == IF res.ok THEN POk(res.rest, v) ELSE PErr

p_alt(r1, r2) == IF r1.ok THEN r1 ELSE r2

\* many1(anychar): at least one character, then every remaining one
p_many1_anychar(input) == IF input = <<>> THEN PErr ELSE POk(<<>>, input)

Digits == {"0", "1", "2", "3", "4", "5", "6", "7", "8", "9"}

DigitValue(c) ==
    CASE c = "0" -> 0 [] c = "1" -> 1 [] c = "2" -> 2 [] c = "3" -> 3 [] c = "4" -> 4
      [] c = "5" -> 5 [] c = "6" -> 6 [] c = "7" -> 7 [] c = "8" -> 8 [] c = "9" -> 9

RECURSIVE LeadingDigits(_)
LeadingDigits(input) ==
    IF input # <<>> /\ Head(input) \in Digits
    THEN 1 + LeadingDigits(Tail(input)) ELSE 0

\* digit0: zero or more ASCII digits
p_digit0(input) ==
    POk(Skip(input, LeadingDigits(input)), Take(input, LeadingDigits(input)))

\* str::parse::<usize>() of a string of digits
RECURSIVE ParseUsize(_)
ParseUsize(s) ==
    IF s = <<>> THEN 0 ELSE 10 * ParseUsize(Take(s, Len(s) - 1)) + DigitValue(s[Len(s)])

(***************************************************************************)
(* mode.rs: mod execute                                                    *)
(***************************************************************************)
quit(input) == p_value(Msg("Quit"), p_all_consuming(p_char("q", input)))

\* save without all_consuming: accepts any line that starts with 'w'
save_prefix(input) == p_value(Msg("Save"), p_char("w", input))

save(input) == p_value(Msg("Save"), p_all_consuming(p_char("w", input)))

save_as(input) ==
    LET w == p_char("w", input)
        sp == IF w.ok THEN p_char(" ", w.rest) ELSE PErr
        name == IF sp.ok THEN p_many1_anychar(sp.rest) ELSE PErr
    IN  IF name.ok THEN POk(name.rest, SaveAs(name.val)) ELSE PErr

execute_command_for_input(input) ==
    Bind(p_all_consuming(p_alt(quit(input), p_alt(save(input), save_as(input)))),
         LAMBDA r : IF r.ok THEN Some(r.val) ELSE None)

ExecuteParse(command_string) == execute_command_for_input(command_string)

ExecuteHandle(key) ==
    CASE key.key = "Enter" -> Some(Msg("EndCommandLineInput"))
      [] key.key = "Char" -> Some(InsertChar(key.ch))
      [] key.key = "Left" -> Some(MsgN("MoveCursorLeft", 1))
      [] key.key = "Right" -> Some(MsgN("MoveCursorRight", 1))
      [] key.key = "Backspace" -> Some(Msg("DeleteCharBackward"))
      [] key.key = "Delete" -> Some(Msg("DeleteCharForward"))
      [] key.key = "Home" -> Some(Msg("MoveCursorLineStart"))
      [] key.key = "End" -> Some(Msg("MoveCursorLineEnd"))
      [] key.key = "Esc" -> Some(Msg("AbortCommandLineInput"))
      [] OTHER -> None

(***************************************************************************)
(* mode.rs: Insert                                                         *)
(***************************************************************************)
InsertHandle(key) ==
    CASE key.key = "Up" -> Some(MsgN("MoveCursorUp", 1))
      [] key.key = "Down" -> Some(MsgN("MoveCursorDown", 1))
      [] key.key = "Left" -> Some(MsgN("MoveCursorLeft", 1))
      [] key.key = "Right" -> Some(MsgN("MoveCursorRight", 1))
      [] key.key = "Home" -> Some(Msg("MoveCursorLineStart"))
      [] key.key = "End" -> Some(Msg("MoveCursorLineEnd"))
      [] key.key = "PageUp" -> Some(Msg("MoveCursorPageUp"))
      [] key.key = "PageDown" -> Some(Msg("MoveCursorPageDown"))
      [] key.key = "Delete" -> Some(Msg("DeleteCharForward"))
      [] key.key = "Backspace" -> Some(Msg("DeleteCharBackward"))
      [] key.key = "Enter" -> Some(Msg("InsertLineBreak"))
      [] key.key = "Char" -> Some(InsertChar(key.ch))
      [] key.key = "Esc" -> Some(EnterMode(NormalDefault))
      [] OTHER -> None

(***************************************************************************)
(* mode.rs: mod normal                                                     *)
(***************************************************************************)
command_mode(input) == p_value(EnterMode(ExecuteDefault), p_char(":", input))

insert_mode(input) == p_value(EnterMode(InsertDefault), p_char("i", input))

non_zero_digit(input) == p_one_of(Digits \ {"0"}, input)

\* recognize(pair(non_zero_digit, digit0)): the consumed slice
multiplier(input) ==
    Bind(non_zero_digit(input), LAMBDA d :
    Bind(IF d.ok THEN p_digit0(d.rest) ELSE PErr, LAMBDA ds :
        IF ds.ok THEN POk(ds.rest, Take(input, Len(input) - Len(ds.rest))) ELSE PErr))

movement_key(input) ==
    p_alt(p_char("h", input), p_alt(p_char("j", input),
        p_alt(p_char("k", input), p_char("l", input))))

MoveFor(c, n) ==
    CASE c = "h" -> MsgN("MoveCursorLeft", n)
      [] c = "j" -> MsgN("MoveCursorDown", n)
      [] c = "k" -> MsgN("MoveCursorUp", n)
      [] c = "l" -> MsgN("MoveCursorRight", n)

single_move_action(input) ==
    Bind(movement_key(input), LAMBDA k :
        IF k.ok THEN POk(k.rest, MoveFor(k.val, 1)) ELSE PErr)

multi_move_action(input) ==
    Bind(multiplier(input), LAMBDA m :
    Bind(IF m.ok THEN movement_key(m.rest) ELSE PErr, LAMBDA k :
        IF k.ok THEN POk(k.rest, MoveFor(k.val, ParseUsize(m.val))) ELSE PErr))

movement_action(input) == p_alt(single_move_action(input), multi_move_action(input))

normal_command_for_input(input) ==
    Bind(p_all_consuming(p_alt(command_mode(input),
             p_alt(insert_mode(input), movement_action(input)))),
         LAMBDA r : IF r.ok THEN Some(r.val) ELSE None)

\* the direct single-key mappings of Normal::handle
\* a match without the arm for Enter
NormalDirect_noEnter(key) ==
    CASE key.key = "Home" -> Some(Msg("MoveCursorLineStart"))
      [] key.key = "End" -> Some(Msg("MoveCursorLineEnd"))
      [] key.key = "PageUp" -> Some(Msg("MoveCursorPageUp"))
      [] key.key = "PageDown" -> Some(Msg("MoveCursorPageDown"))
      [] key.key = "Insert" -> Some(EnterMode(InsertDefault))
      [] OTHER -> None

NormalDirect(key) ==
    CASE key.key = "Home" -> Some(Msg("MoveCursorLineStart"))
      [] key.key = "End" -> Some(Msg("MoveCursorLineEnd"))
      [] key.key = "PageUp" -> Some(Msg("MoveCursorPageUp"))
      [] key.key = "PageDown" -> Some(Msg("MoveCursorPageDown"))
      [] key.key = "Insert" -> Some(EnterMode(InsertDefault))
      [] key.key = "Enter" -> Some(MsgN("MoveCursorDown", 1))
      [] OTHER -> None

\* Normal::handle(&mut self, key): the mode after the call and the returned
\* Option<Message>.  The closure of map_or_else clears the buffer after every
\* grammar attempt, matched or not.
\* a handle that keeps the input buffer of a sequence that did not match
NormalHandle_keeping(m, key) ==
    LET pushed == IF key.key = "Char" THEN Append(m.input_buffer, key.ch) ELSE m.input_buffer
        direct == NormalDirect(key)
    IN  Bind(IF key.key = "Esc" THEN <<>> ELSE pushed, LAMBDA buf :
            IF direct.type = "None"
            THEN [mode |-> NormalMode(buf), msg |-> normal_command_for_input(buf)]
            ELSE [mode |-> NormalMode(buf), msg |-> direct])

NormalHandle(m, key) ==
    LET pushed == IF key.key = "Char" THEN Append(m.input_buffer, key.ch) ELSE m.input_buffer
        direct == NormalDirect(key)
    IN  Bind(IF key.key = "Esc" THEN <<>> ELSE pushed, LAMBDA buf :
            IF direct.type = "None"
            THEN [mode |-> NormalMode(<<>>), msg |-> normal_command_for_input(buf)]
            ELSE [mode |-> NormalMode(buf), msg |-> direct])

\* the `match self.mode` of Editor::consume's key branch
ModeHandle(m, key) ==
    CASE m.kind = "Execute" -> [mode |-> m, msg |-> ExecuteHandle(key)]
      [] m.kind = "Insert" -> [mode |-> m, msg |-> InsertHandle(key)]
      [] m.kind = "Normal" -> NormalHandle(m, key)

(***************************************************************************)
(* ui.rs: Rect                                                             *)
(***************************************************************************)
RectPositioned(width, height, col, row) ==
    [width |-> width, height |-> height, position |-> Position(col, row)]

RectNew(width, height) == RectPositioned(width, height, 0, 0)

RectLeft(r) == r.position.col

RectRight(r) == r.position.col + r.width - 1

RectTop(r) == r.position.row

RectBottom(r) == r.position.row + r.height - 1

\* a contains that leaves out the last column and the last row
RectContains_exclusive(r, position) ==
    /\ position.col >= RectLeft(r) /\ position.col < RectRight(r)
    /\ position.row >= RectTop(r) /\ position.row < RectBottom(r)

RectContains(r, position) ==
    /\ position.col >= RectLeft(r) /\ position.col <= RectRight(r)
    /\ position.row >= RectTop(r) /\ position.row <= RectBottom(r)

(***************************************************************************)
(* component/text_input.rs: TextInput                                      *)
(***************************************************************************)
TextInputNew(prompt, place_holder, position) ==
    [cursor_position |-> 0, focused |-> FALSE, place_holder |-> place_holder,
     position |-> position, prompt |-> prompt, value |-> RowDefault]

TextInputReset(t) == [t EXCEPT !.value = RowDefault, !.cursor_position = 0]

\* Component::update of TextInput: the component after the call and the
\* returned Option<Command> (the Result is always Ok)
TextInputUpdate(t, msg) ==
    CASE msg.type = "InsertChar" ->
            [input |-> [t EXCEPT !.value = RowInsert(t.value, t.cursor_position, msg.ch),
                                 !.cursor_position = t.cursor_position + 1],
             cmd |-> None]
      [] msg.type = "EndCommandLineInput" ->
            [input |-> TextInputReset(t),
             cmd |-> [type |-> "SomeCmd",
                      cmd |-> wrap(ParseCommandLineInput(RowContents(t.value)))]]
      [] msg.type = "AbortCommandLineInput" ->
            [input |-> TextInputReset(t),
             cmd |-> [type |-> "SomeCmd", cmd |-> wrap(EnterMode(NormalDefault))]]
      [] msg.type = "MoveCursorLeft" ->
            [input |-> IF t.cursor_position > 1
                       THEN [t EXCEPT !.cursor_position = SatSub(t.cursor_position, msg.n)]
                       ELSE t,
             cmd |-> None]
      [] msg.type = "MoveCursorRight" ->
            [input |-> IF t.cursor_position # RowLen(t.value)
                       THEN [t EXCEPT !.cursor_position = t.cursor_position + msg.n]
                       ELSE t,
             cmd |-> None]
      [] msg.type = "MoveCursorLineStart" ->
            [input |-> [t EXCEPT !.cursor_position = 1], cmd |-> None]
      [] msg.type = "MoveCursorLineEnd" ->
            [input |-> [t EXCEPT !.cursor_position = RowLen(t.value)], cmd |-> None]
      [] msg.type = "DeleteCharForward" ->
            LET v == RowDelete(t.value, t.cursor_position)
            IN  IF RowLen(v) <= 1
                THEN [input |-> TextInputReset(t),
                      cmd |-> [type |-> "SomeCmd", cmd |-> wrap(EnterMode(NormalDefault))]]
                ELSE [input |-> [t EXCEPT !.value = v], cmd |-> None]
      [] msg.type = "DeleteCharBackward" ->
            LET c == SatSub(t.cursor_position, 1)
                v == RowDelete(t.value, c)
            IN  IF RowLen(v) <= 1
                THEN [input |-> TextInputReset(t),
                      cmd |-> [type |-> "SomeCmd", cmd |-> wrap(EnterMode(NormalDefault))]]
                ELSE [input |-> [t EXCEPT !.value = v, !.cursor_position = c], cmd |-> None]
      [] OTHER -> [input |-> t, cmd |-> None]

(***************************************************************************)
(* component/buffer.rs: Buffer                                             *)
(***************************************************************************)
BufferNew(viewport, document) ==
    [cursor_position |-> Position(0, 0), document |-> document, focused |-> FALSE,
     offset |-> Position(0, 0), viewport |-> viewport]

\* Buffer::scroll: the recomputed offset
BufferScroll(b) ==
    LET col == b.cursor_position.col
        row == b.cursor_position.row
        width == b.viewport.width
        height == b.viewport.height - 2
        first == IF row < b.offset.row THEN <<b.offset.col, row>>
                 ELSE IF col >= b.offset.col + height
                 THEN <<b.offset.row, SatSub(col, height) + 1>>
                 ELSE <<b.offset.col, b.offset.row>>
        second == IF col < b.offset.col THEN <<col, first[2]>>
                  ELSE IF col >= b.offset.col + width THEN <<col + width + 1, first[2]>>
                  ELSE <<b.offset.col, first[2]>>
    IN  [b EXCEPT !.offset = Position(second[1], second[2])]

\* the unchecked `col - n` / `row - n` of move_cursor go below zero
MoveCursorUnderflows(b, msg) ==
    /\ msg.type = "MoveCursorLeft"
    /\ \/ b.cursor_position.col > 0 /\ msg.n > b.cursor_position.col
       \/ b.cursor_position.col = 0 /\ b.cursor_position.row > 0
            /\ msg.n > b.cursor_position.row

\* Buffer::move_cursor, for the messages whose subtractions stay in range
BufferMoveCursor(b, msg) ==
    LET terminal_height == b.viewport.height - 2
        col == b.cursor_position.col
        row == b.cursor_position.row
        height == DocLen(b.document)
        width == DocRowLenOr0(b.document, row)
        to == CASE msg.type = "MoveCursorUp" -> <<col, SatSub(row, msg.n)>>
                [] msg.type = "MoveCursorDown" ->
                      IF row < height THEN <<col, row + msg.n>> ELSE <<col, row>>
                [] msg.type = "MoveCursorLeft" ->
                      IF col > 0 THEN <<col - msg.n, row>>
                      ELSE IF row > 0
                      THEN (IF row < height
                            THEN <<RowLen(b.document.rows[row + 1]), row - msg.n>>
                            ELSE <<0, row - msg.n>>)
                      ELSE <<col, row>>
                [] msg.type = "MoveCursorRight" ->
                      IF col < width THEN <<col + msg.n, row>>
                      ELSE IF row < height THEN <<0, row + msg.n>>
                      ELSE <<col, row>>
                [] msg.type = "MoveCursorPageUp" ->
                      IF row > terminal_height THEN <<col, row - terminal_height>>
                      ELSE <<col, 0>>
                [] msg.type = "MoveCursorPageDown" ->
                      IF row + terminal_height < height THEN <<col, row + terminal_height>>
                      ELSE <<col, height>>
                [] msg.type = "MoveCursorLineStart" -> <<0, row>>
                [] msg.type = "MoveCursorLineEnd" -> <<width, row>>
                [] OTHER -> <<col, row>>
    IN  Bind(to, LAMBDA moved :
            LET new_width == DocRowLenOr0(b.document, moved[2])
            IN  [b EXCEPT !.cursor_position =
                    Position(IF moved[1] > new_width THEN new_width ELSE moved[1],
                             moved[2])])

\* Component::update of Buffer.  status is "ok" (Ok(None)), "err" (the `?` of
\* Document::insert or Document::save returned early) or "panic" (arithmetic
\* overflow in move_cursor).  io_ok is the outcome of the file writes.
BufferUpdate(b, msg, files, io_ok) ==
    LET Done(status, fs, calls, buffer) ==
            [status |-> status, files |-> fs, saved |-> calls, buffer |-> buffer]
        \* self.move_cursor(m); self.scroll();
        MoveAndScroll(b0, m) == Bind(BufferMoveCursor(b0, m), LAMBDA b1 : BufferScroll(b1))
        Saved(filename) ==
            Bind(DocSave(b.document, filename, files, io_ok), LAMBDA r :
                Done(IF r.ok THEN "ok" ELSE "err", r.files, {filename},
                     IF r.ok THEN BufferScroll([b EXCEPT !.document = r.doc])
                     ELSE [b EXCEPT !.document = r.doc]))
    IN  CASE msg.type = "InsertChar" ->
                Bind(DocInsert(b.document, b.cursor_position, msg.ch), LAMBDA r :
                    IF r.ok
                    THEN Bind([b EXCEPT !.document = r.doc], LAMBDA b0 :
                            Done("ok", files, {}, MoveAndScroll(b0, MsgN("MoveCursorRight", 1))))
                    ELSE Done("err", files, {}, b))
          [] msg.type = "InsertLineBreak" ->
                Bind([b EXCEPT !.document = DocInsertNewline(b.document, b.cursor_position)],
                     LAMBDA b0 :
                Bind(BufferMoveCursor(b0, MsgN("MoveCursorDown", 1)), LAMBDA b1 :
                    Done("ok", files, {}, MoveAndScroll(b1, Msg("MoveCursorLineStart")))))
          [] msg.type = "DeleteCharForward" ->
                Bind([b EXCEPT !.document = DocDelete(b.document, b.cursor_position)],
                     LAMBDA b0 : Done("ok", files, {}, BufferScroll(b0)))
          [] msg.type = "DeleteCharBackward" ->
                IF b.cursor_position.col > 0 \/ b.cursor_position.row > 0
                THEN Bind(BufferMoveCursor(b, MsgN("MoveCursorLeft", 1)), LAMBDA moved :
                     Bind([moved EXCEPT !.document =
                              DocDelete(moved.document, moved.cursor_position)],
                          LAMBDA b0 : Done("ok", files, {}, BufferScroll(b0))))
                ELSE Done("ok", files, {}, BufferScroll(b))
          [] msg.type = "Save" -> Saved(None)
          [] msg.type = "SaveAs" -> Saved(SomeName(msg.name))
          [] OTHER ->
                IF MoveCursorUnderflows(b, msg)
                THEN Done("panic", files, {}, b)
                ELSE Done("ok", files, {}, MoveAndScroll(b, msg))

(***************************************************************************)
(* component/window.rs: Window                                             *)
(***************************************************************************)
PlaceHolder ==
    <<" ", "P", "r", "e", "s", "s", " ", ":", " ", "t", "o", " ", "e", "n",
     "t", "e", "r", " ", "a", " ", "c", "o", "m", "m", "a", "n", "d", ".", ".", ".">>

WindowNew(size, mode) ==
    LET command_prompt == TextInputNew(<<":">>, PlaceHolder,
                                       Position(0, RectBottom(size)))
    IN  [active_buffer_idx |-> 0,
         buffers |-> <<>>,
         command_prompt |-> IF mode.kind = "Execute"
                            THEN [command_prompt EXCEPT !.focused = TRUE]
                            ELSE command_prompt,
         mode |-> mode,
         size |-> size]

buffer_space(w) ==
    RectPositioned(w.size.width, w.size.height, RectLeft(w.size), RectBottom(w.size) - 2)

\* the EnterMode interception at the head of Window::update
\* an EnterMode that opens a buffer on every EnterMode(Insert)
WindowEnterMode_pushing(w, msg) ==
    IF msg.type = "EnterMode"
    THEN [w EXCEPT
            !.buffers = IF msg.mode.kind = "Insert"
                        THEN Append(@, BufferNew(buffer_space(w), DocumentDefault))
                        ELSE @,
            !.command_prompt.focused = (msg.mode.kind = "Execute"),
            !.mode = msg.mode]
    ELSE w

WindowEnterMode(w, msg) ==
    IF msg.type = "EnterMode"
    THEN [w EXCEPT
            !.buffers = IF msg.mode.kind = "Insert" /\ w.buffers = <<>>
                        THEN <<BufferNew(buffer_space(w), DocumentDefault)>>
                        ELSE @,
            !.command_prompt.focused = (msg.mode.kind = "Execute"),
            !.mode = msg.mode]
    ELSE w

\* a Window that hands the message to the active buffer as well as to the
\* command-line input while in Execute mode
WindowUpdate_broadcast(w, msg, files, io_ok) ==
    Bind(WindowEnterMode(w, msg), LAMBDA w1 :
        IF w1.mode.kind = "Execute"
        THEN Bind(TextInputUpdate(w1.command_prompt, msg), LAMBDA r :
                [status |-> "ok",
                 window |-> [w1 EXCEPT
                    !.command_prompt = r.input,
                    !.buffers = IF w1.active_buffer_idx < Len(w1.buffers)
                                THEN [@ EXCEPT ![w1.active_buffer_idx + 1] =
                                        BufferUpdate(@, msg, files, io_ok).buffer]
                                ELSE @],
                 cmd |-> r.cmd, files |-> files, saved |-> {}])
        ELSE IF w1.active_buffer_idx >= Len(w1.buffers)
        THEN [status |-> "panic", window |-> w1, cmd |-> None, files |-> files, saved |-> {}]
        ELSE Bind(BufferUpdate(w1.buffers[w1.active_buffer_idx + 1], msg, files, io_ok),
                  LAMBDA r :
                [status |-> r.status,
                 window |-> [w1 EXCEPT !.buffers[w1.active_buffer_idx + 1] = r.buffer],
                 cmd |-> None, files |-> r.files, saved |-> r.saved]))

\* Component::update of Window: status "ok", "err" or "panic" (indexing a
\* buffer that does not exist, or a panic inside the buffer), the window after
\* the call, the returned Option<Command>, the file system, and the arguments
\* of the Document::save calls made.
WindowUpdate(w, msg, files, io_ok) ==
    Bind(WindowEnterMode(w, msg), LAMBDA w1 :
        IF w1.mode.kind = "Execute"
        THEN Bind(TextInputUpdate(w1.command_prompt, msg), LAMBDA r :
                [status |-> "ok", window |-> [w1 EXCEPT !.command_prompt = r.input],
                 cmd |-> r.cmd, files |-> files, saved |-> {}])
        ELSE IF w1.active_buffer_idx >= Len(w1.buffers)
        THEN [status |-> "panic", window |-> w1, cmd |-> None, files |-> files, saved |-> {}]
        ELSE Bind(BufferUpdate(w1.buffers[w1.active_buffer_idx + 1], msg, files, io_ok),
                  LAMBDA r :
                [status |-> r.status,
                 window |-> [w1 EXCEPT !.buffers[w1.active_buffer_idx + 1] = r.buffer],
                 cmd |-> None, files |-> r.files, saved |-> r.saved]))

(***************************************************************************)
(* render.rs: Cell and Frame.  A symbol is one grapheme cluster, given by  *)
(* its characters.                                                         *)
(***************************************************************************)
CellNew(col, row, symbol, foreground, background) ==
    [position |-> Position(col, row), symbol |-> symbol,
     foreground |-> foreground, background |-> background]

CellReset(c) == [c EXCEPT !.symbol = <<" ">>]

FrameFilled(area, symbol) ==
    [area |-> area,
     cells |-> [i \in 1..(area.width * area.height) |->
                  CellNew((i - 1) % area.width, (i - 1) \div area.width, symbol,
                          "Reset", "Reset")],
     cursor_position |-> Position(0, 0)]

FrameEmpty(area) == FrameFilled(area, <<" ">>)

\* a comparison of cells that looks at the symbol alone
CellsDiffer_symbol(front, back) == front.symbol # back.symbol

\* `front != back` (derived PartialEq of Cell)
CellsDiffer(front, back) == front # back

\* the loop of Frame::diff over the first n pairs of cells: a reference into
\* other.cells is pushed, in index order, for every pair that differs
RECURSIVE DiffUpTo(_, _, _)
DiffUpTo(front_buffer, back_buffer, n) ==
    IF n = 0 THEN <<>>
    ELSE DiffUpTo(front_buffer, back_buffer, n - 1)
            \o (IF CellsDiffer(back_buffer[n], front_buffer[n])
                THEN <<[cell_of |-> "other", index |-> n - 1]>>
                ELSE <<>>)

\* self.diff(other): references to cells of `other`
FrameDiff(self, other) ==
    DiffUpTo(self.cells, other.cells, Min(Len(self.cells), Len(other.cells)))

\* Result<usize, OutOfBoundsError>
FrameIndexOf(f, position) ==
    IF RectContains(f.area, position)
    THEN [ok |-> TRUE,
          index |-> (position.row - f.area.position.row) * f.area.width
                        + (position.col - f.area.position.col)]
    ELSE [ok |-> FALSE]

FrameReset(f) == [f EXCEPT !.cells = [i \in 1..Len(f.cells) |-> CellReset(f.cells[i])]]

\* a write_line that leaves the cells after the text as they were
FrameWriteLine_splice(f, row_number, string, foreground, background) ==
    Bind(FrameIndexOf(f, Position(0, row_number)), LAMBDA at :
    Bind(Graphemes(string), LAMBDA graphemes :
        IF ~at.ok THEN [status |-> "panic", frame |-> f]
        ELSE [status |-> IF at.index + Len(graphemes) > Len(f.cells) THEN "panic" ELSE "ok",
              frame |-> [f EXCEPT !.cells = [i \in 1..Len(f.cells) |->
                  IF i > at.index /\ i <= at.index + Len(graphemes)
                  THEN CellNew(f.cells[i].position.col, f.cells[i].position.row,
                               graphemes[i - at.index], foreground, background)
                  ELSE f.cells[i]]]]))

\* write_line: status "panic" when the row is outside the frame (unwrap of
\* OutOfBoundsError) or the text runs past the last cell (index out of
\* bounds, after the cells up to the last were written)
FrameWriteLine(f, row_number, string, foreground, background) ==
    Bind(FrameIndexOf(f, Position(0, row_number)), LAMBDA at :
    Bind(Graphemes(string), LAMBDA graphemes :
        IF ~at.ok THEN [status |-> "panic", frame |-> f]
        ELSE [status |-> IF at.index + Len(graphemes) > Len(f.cells) THEN "panic" ELSE "ok",
              frame |-> [f EXCEPT !.cells = [i \in 1..Len(f.cells) |->
                  IF i > at.index /\ i <= at.index + Len(graphemes)
                  THEN CellNew(f.cells[i].position.col, f.cells[i].position.row,
                               graphemes[i - at.index], foreground, background)
                  ELSE IF i > at.index + Len(graphemes) /\ i <= at.index + f.area.width
                  THEN CellReset(f.cells[i])
                  ELSE f.cells[i]]]]))

(***************************************************************************)
(* render.rs: Viewport with its two frames and the calls it makes on the   *)
(* Canvas.  A View is given by the write_line calls and the                *)
(* set_cursor_position call its render_to makes.                           *)
(***************************************************************************)
CurrentFrame(v) == v.frames[v.current_frame_idx + 1]

PreviousFrame(v) == v.frames[(1 - v.current_frame_idx) + 1]

\* Viewport::new on a canvas of the given size
ViewportFrames(area) ==
    [frames |-> <<FrameEmpty(area), FrameEmpty(area)>>, current_frame_idx |-> 0]

\* the write_line calls of a view, in order, until one panics
RECURSIVE WriteLines(_, _)
WriteLines(f, lines) ==
    IF lines = <<>> THEN [status |-> "ok", frame |-> f]
    ELSE Bind(FrameWriteLine(f, Head(lines).row_number, Head(lines).string,
                             Head(lines).foreground, Head(lines).background), LAMBDA r :
            IF r.status = "ok" THEN WriteLines(r.frame, Tail(lines)) ELSE r)

\* View::render_to
RenderTo(view, f) ==
    Bind(WriteLines(f, view.lines), LAMBDA r :
        IF r.status = "ok" /\ view.cursor.type = "Some"
        THEN [r EXCEPT !.frame.cursor_position = view.cursor.position]
        ELSE r)

\* the cells a Vec<&Cell> returned by diff refers to
DiffCells(changes, other) == [k \in 1..Len(changes) |-> other.cells[changes[k].index + 1]]

\* a swap that resets the frame just rendered instead of the other one
SwapBuffers_resetCurrent(v) ==
    [v EXCEPT !.frames[v.current_frame_idx + 1] = FrameReset(@),
              !.current_frame_idx = 1 - v.current_frame_idx]

\* Viewport::swap_buffers
SwapBuffers(v) ==
    [v EXCEPT !.frames[(1 - v.current_frame_idx) + 1] = FrameReset(@),
              !.current_frame_idx = 1 - v.current_frame_idx]

\* the canvas calls of Viewport::render that can fail, and "ok" for none
CanvasOutcomes == {"ok", "hide_cursor", "draw", "position_cursor", "show_cursor", "flush"}

\* a render that flushes the canvas before it swaps the frames
ViewportRenderFrames_flushFirst(v, view, outcome) ==
    IF outcome = "hide_cursor"
    THEN [status |-> "err", viewport |-> v, trace |-> <<[step |-> "hide_cursor"]>>]
    ELSE Bind(RenderTo(view, CurrentFrame(v)), LAMBDA r :
         Bind([v EXCEPT !.frames[v.current_frame_idx + 1] = r.frame], LAMBDA v1 :
         IF r.status = "panic"
         THEN [status |-> "panic", viewport |-> v1,
               trace |-> <<[step |-> "hide_cursor"], [step |-> "render_to"]>>]
         ELSE Bind(<<[step |-> "hide_cursor"], [step |-> "render_to"], [step |-> "diff"],
                    [step |-> "draw",
                     cells |-> DiffCells(FrameDiff(PreviousFrame(v1), CurrentFrame(v1)),
                                         CurrentFrame(v1))],
                    [step |-> "position_cursor",
                     row |-> CurrentFrame(v1).cursor_position.row,
                     col |-> CurrentFrame(v1).cursor_position.col],
                    [step |-> "show_cursor"]>>, LAMBDA t :
              CASE outcome = "draw" ->
                      [status |-> "err", viewport |-> v1, trace |-> SubSeq(t, 1, 4)]
                [] outcome = "position_cursor" ->
                      [status |-> "err", viewport |-> v1, trace |-> SubSeq(t, 1, 5)]
                [] outcome = "show_cursor" ->
                      [status |-> "err", viewport |-> v1, trace |-> t]
                [] OTHER ->
                      [status |-> IF outcome = "flush" THEN "err" ELSE "ok",
                       viewport |-> IF outcome = "flush" THEN v1 ELSE SwapBuffers(v1),
                       trace |-> t \o <<[step |-> "flush"]>>
                                   \o (IF outcome = "flush" THEN <<>>
                                       ELSE <<[step |-> "reset"], [step |-> "swap"]>>)])))

\* Viewport::render: the Result ("ok", "err", or "panic" inside the view),
\* the viewport after the call, and the steps taken in order, the canvas
\* calls with their arguments; outcome names the canvas call that fails
ViewportRenderFrames(v, view, outcome) ==
    IF outcome = "hide_cursor"
    THEN [status |-> "err", viewport |-> v, trace |-> <<[step |-> "hide_cursor"]>>]
    ELSE Bind(RenderTo(view, CurrentFrame(v)), LAMBDA r :
         Bind([v EXCEPT !.frames[v.current_frame_idx + 1] = r.frame], LAMBDA v1 :
         IF r.status = "panic"
         THEN [status |-> "panic", viewport |-> v1,
               trace |-> <<[step |-> "hide_cursor"], [step |-> "render_to"]>>]
         ELSE Bind(<<[step |-> "hide_cursor"], [step |-> "render_to"], [step |-> "diff"],
                    [step |-> "draw",
                     cells |-> DiffCells(FrameDiff(PreviousFrame(v1), CurrentFrame(v1)),
                                         CurrentFrame(v1))],
                    [step |-> "position_cursor",
                     row |-> CurrentFrame(v1).cursor_position.row,
                     col |-> CurrentFrame(v1).cursor_position.col],
                    [step |-> "show_cursor"]>>, LAMBDA t :
              CASE outcome = "draw" ->
                      [status |-> "err", viewport |-> v1, trace |-> SubSeq(t, 1, 4)]
                [] outcome = "position_cursor" ->
                      [status |-> "err", viewport |-> v1, trace |-> SubSeq(t, 1, 5)]
                [] outcome = "show_cursor" ->
                      [status |-> "err", viewport |-> v1, trace |-> t]
                [] OTHER ->
                      [status |-> IF outcome = "flush" THEN "err" ELSE "ok",
                       viewport |-> SwapBuffers(v1),
                       trace |-> t \o <<[step |-> "reset"], [step |-> "swap"],
                                        [step |-> "flush"]>>])))

(***************************************************************************)
(* render.rs: Viewport, as far as the event loop observes it: which of the *)
(* two frames is current, and whether a render succeeded.                  *)
(***************************************************************************)
ViewportNew(area) == [area |-> area, current_frame_idx |-> 0]

\* the ways a call of Viewport::render can end: every canvas call succeeds;
\* hide_cursor, draw, position_cursor or show_cursor fails (before
\* swap_buffers); flush fails (after swap_buffers)
RenderOutcomes == {"ok", "canvas_failed", "flush_failed"}

ViewportRender(v, outcome) ==
    [ok |-> (outcome = "ok"),
     viewport |-> IF outcome = "canvas_failed" THEN v
                  ELSE [v EXCEPT !.current_frame_idx = 1 - v.current_frame_idx]]

(***************************************************************************)
(* editor.rs: Editor and the state of one call of Editor::consume          *)
(***************************************************************************)
VARIABLES
    mode,            \* Editor.mode
    root_component,  \* Editor.root_component (the Window)
    should_quit,     \* Editor.should_quit
    viewport,        \* Editor.viewport
    err_rx,          \* content of the error channel
    cmd_rx,          \* content of the command channel
    msg_rx,          \* content of the message channel
    msg_senders,     \* messages of tasks suspended in msg_tx.send, in arrival order
    tasks,           \* bag of the commands of spawned tasks that have not run yet
    pc,              \* where consume is: start, select, stuck, panicked, returned
    result,          \* what consume returned
    files,           \* the file system, file name -> rows written
    saved,           \* the arguments of all Document::save calls made so far
    iter,            \* the update and render calls of the last loop iteration
    progress,        \* events the stream has yielded, and whether each key found the loop idle
    keys_fed,        \* grammar harness: the keys fed so far
    handled,         \* grammar harness: what each call returned
    command_string,  \* grammar harness: the command line to parse
    subject,         \* data harness: the Row, Document or frames operated on
    call             \* data harness: the last call made on subject

editorVars == <<mode, root_component, should_quit, viewport>>

channelVars == <<err_rx, cmd_rx, msg_rx, msg_senders, tasks>>

loopVars == <<pc, result, files, saved, iter, progress>>

harnessVars == <<keys_fed, handled, command_string, subject, call>>

vars == <<mode, root_component, should_quit, viewport, err_rx, cmd_rx, msg_rx,
          msg_senders, tasks, pc, result, files, saved, iter, progress,
          keys_fed, handled, command_string, subject, call>>

\* mpsc::channel(1), three times
ChannelCapacity == 1

\* which arm of the select an iteration took (the message arm told apart by
\* whether the message was ParseCommandLineInput), and how often it called
\* root_component.update and viewport.render
Calls(arm, updates, renders) == [arm |-> arm, updates |-> updates, renders |-> renders]

NoIter == Calls("none", 0, 0)

\* Editor::new followed by the entry of consume
EditorInit ==
    /\ mode = ModeDefault
    /\ viewport = ViewportNew(RectNew(TermWidth, TermHeight))
    /\ root_component = WindowNew(RectNew(TermWidth, TermHeight), ModeDefault)
    /\ should_quit = FALSE
    /\ err_rx = <<>>
    /\ cmd_rx = <<>>
    /\ msg_rx = <<>>
    /\ msg_senders = <<>>
    /\ tasks = EmptyBag
    /\ pc = "start"
    /\ result = None
    /\ files = <<>>
    /\ saved = {}
    /\ iter = NoIter
    /\ progress = [typed |-> 0, orderly |-> TRUE]

\* no call made yet
NoCall == [op |-> "none", n |-> 0]

Init ==
    /\ EditorInit
    /\ keys_fed = <<>>
    /\ handled = <<>>
    /\ command_string = <<>>
    /\ subject = None
    /\ call = NoCall

(***************************************************************************)
(* The loop state as one record, and the steps of an iteration on it.  A   *)
(* step does nothing once the loop is stuck in a send or has panicked.     *)
(***************************************************************************)
Loop ==
    [mode |-> mode, root_component |-> root_component, should_quit |-> should_quit,
     viewport |-> viewport, err_rx |-> err_rx, cmd_rx |-> cmd_rx, msg_rx |-> msg_rx,
     msg_senders |-> msg_senders, pc |-> pc, result |-> result, files |-> files,
     saved |-> saved, updates |-> 0, renders |-> 0]

Running(st) == st.pc = "select"

\* msg_tx.send(m).await by the loop itself: it gets a permit only when the
\* channel has room and no task waits for one; otherwise it waits for a
\* recv that only the loop could make
SendMsg(st, m) ==
    IF ~Running(st) THEN st
    ELSE IF Len(st.msg_rx) < ChannelCapacity /\ st.msg_senders = <<>>
    THEN [st EXCEPT !.msg_rx = Append(@, m)]
    ELSE [st EXCEPT !.pc = "stuck"]

\* cmd_tx.send(cmd).await
SendCmd(st, c) ==
    IF ~Running(st) THEN st
    ELSE IF Len(st.cmd_rx) < ChannelCapacity
    THEN [st EXCEPT !.cmd_rx = Append(@, c)]
    ELSE [st EXCEPT !.pc = "stuck"]

\* err_tx.send(e).await
SendErr(st, e) ==
    IF ~Running(st) THEN st
    ELSE IF Len(st.err_rx) < ChannelCapacity
    THEN [st EXCEPT !.err_rx = Append(@, e)]
    ELSE [st EXCEPT !.pc = "stuck"]

\* msg_rx.recv(): the message leaves the channel and the freed permit goes
\* to the task that has waited longest, whose message then fills the channel
RecvMsg(st) ==
    IF st.msg_senders = <<>>
    THEN [st EXCEPT !.msg_rx = Tail(@)]
    ELSE [st EXCEPT !.msg_rx = Append(Tail(@), Head(st.msg_senders)),
                    !.msg_senders = Tail(@)]

\* `if let Message::Quit = msg { self.should_quit = true; }`
NoteQuit(st, msg) ==
    IF msg.type = "Quit" THEN [st EXCEPT !.should_quit = TRUE] ELSE st

\* `if let Message::EnterMode(mode) = msg.clone() { self.mode = mode; }`
NoteEnterMode(st, msg) ==
    IF msg.type = "EnterMode" THEN [st EXCEPT !.mode = msg.mode] ELSE st

\* the ParseCommandLineInput arm, up to its `continue`
HandleParse(st, msg) ==
    IF st.mode.kind = "Execute"
    THEN Bind(ExecuteParse(msg.input), LAMBDA parsed :
         Bind([st EXCEPT !.mode = NormalDefault], LAMBDA st1 :
            IF parsed.type = "Some" THEN SendMsg(st1, parsed.msg) ELSE st1))
    ELSE st

\* `match self.root_component.update(msg)` with its sends
UpdateRoot(st, msg, io_ok) ==
    IF ~Running(st) THEN st
    ELSE Bind(WindowUpdate(st.root_component, msg, st.files, io_ok), LAMBDA r :
         Bind([st EXCEPT !.root_component = r.window, !.files = r.files,
                         !.saved = @ \cup r.saved, !.updates = @ + 1], LAMBDA st1 :
            CASE r.status = "panic" -> [st1 EXCEPT !.pc = "panicked"]
              [] r.status = "err" -> SendErr(st1, [error |-> "update"])
              [] r.status = "ok" /\ r.cmd.type = "SomeCmd" -> SendCmd(st1, r.cmd.cmd)
              [] OTHER -> st1))

\* a loop that skips the render once the update has queued an error
RenderRoot_unlessError(st, outcome) ==
    IF ~Running(st) \/ st.err_rx # <<>> THEN st
    ELSE Bind(ViewportRender(st.viewport, outcome), LAMBDA r :
         Bind([st EXCEPT !.viewport = r.viewport, !.renders = @ + 1], LAMBDA st1 :
            IF r.ok THEN st1 ELSE SendErr(st1, [error |-> "render"])))

\* `if let Err(e) = self.viewport.render(&self.root_component)` with its send
RenderRoot(st, outcome) ==
    IF ~Running(st) THEN st
    ELSE Bind(ViewportRender(st.viewport, outcome), LAMBDA r :
         Bind([st EXCEPT !.viewport = r.viewport, !.renders = @ + 1], LAMBDA st1 :
            IF r.ok THEN st1 ELSE SendErr(st1, [error |-> "render"])))

\* `while !self.should_quit` followed by `Ok(())`
LoopCondition(st) ==
    IF Running(st) /\ st.should_quit
    THEN [st EXCEPT !.pc = "returned", !.result = [type |-> "Ok"]]
    ELSE st

\* the message arm of the select
MessageArm(st, io_ok, outcome) ==
    LET msg == Head(st.msg_rx)
    IN  Bind(RecvMsg(st), LAMBDA st1 :
        Bind(NoteQuit(st1, msg), LAMBDA st2 :
        Bind(NoteEnterMode(st2, msg), LAMBDA st3 :
            IF msg.type = "ParseCommandLineInput"
            THEN Bind(HandleParse(st3, msg), LAMBDA st4 : LoopCondition(st4))
            ELSE Bind(UpdateRoot(st3, msg, io_ok), LAMBDA st4 :
                 Bind(RenderRoot(st4, outcome), LAMBDA st5 : LoopCondition(st5))))))

\* the event arm of the select
EventArm(st, event) ==
    CASE event.event = "KeyPressed" ->
            Bind(ModeHandle(st.mode, event.key), LAMBDA r :
            Bind([st EXCEPT !.mode = r.mode], LAMBDA st1 :
            Bind(IF r.msg.type = "Some" THEN SendMsg(st1, r.msg.msg) ELSE st1,
                 LAMBDA st2 : LoopCondition(st2))))
      [] event.event = "ReadFailed" ->
            Bind(SendErr(st, [error |-> "read"]), LAMBDA st1 : LoopCondition(st1))
      [] OTHER -> LoopCondition(st)

(***************************************************************************)
(* The environment of the loop: the events the stream yields.              *)
(***************************************************************************)
LoopChars == {"h", "i", ":", "w", "q"}

LoopKeys == {KeyChar(c) : c \in LoopChars} \cup {Key("Esc"), Key("Enter")}

Events == {KeyPressed(k) : k \in LoopKeys} \cup {ReadFailed, MouseInputReceived}

\* nothing is in flight: every earlier key has been fully processed
Quiescent ==
    /\ pc = "select"
    /\ err_rx = <<>> /\ cmd_rx = <<>> /\ msg_rx = <<>>
    /\ msg_senders = <<>> /\ tasks = EmptyBag

\* the session of the scenario: i h i Esc : w q Enter : w Enter
Script ==
    <<KeyChar("i"), KeyChar("h"), KeyChar("i"), Key("Esc"),
      KeyChar(":"), KeyChar("w"), KeyChar("q"), Key("Enter"),
      KeyChar(":"), KeyChar("w"), Key("Enter")>>

(***************************************************************************)
(* The actions of Editor::consume and of the spawned tasks.                *)
(***************************************************************************)
Assign(st) ==
    /\ mode' = st.mode
    /\ root_component' = st.root_component
    /\ should_quit' = st.should_quit
    /\ viewport' = st.viewport
    /\ err_rx' = st.err_rx
    /\ cmd_rx' = st.cmd_rx
    /\ msg_rx' = st.msg_rx
    /\ msg_senders' = st.msg_senders
    /\ pc' = st.pc
    /\ result' = st.result
    /\ files' = st.files
    /\ saved' = st.saved

\* the render before the loop, with its `?`
InitialRender ==
    /\ pc = "start"
    /\ \E outcome \in RenderOutcomes :
          \E r \in {ViewportRender(viewport, outcome)} :
              /\ viewport' = r.viewport
              /\ pc' = IF r.ok THEN "select" ELSE "returned"
              /\ result' = IF r.ok THEN result ELSE [type |-> "Err", error |-> "render"]
    /\ UNCHANGED <<mode, root_component, should_quit, channelVars, files, saved, iter,
                   progress, harnessVars>>

\* `Some(e) = err_rx.recv() => return Err(e)`
ErrBranch ==
    /\ pc = "select"
    /\ err_rx # <<>>
    /\ err_rx' = Tail(err_rx)
    /\ pc' = "returned"
    /\ result' = [type |-> "Err", error |-> Head(err_rx).error]
    /\ iter' = Calls("err", 0, 0)
    /\ UNCHANGED <<editorVars, cmd_rx, msg_rx, msg_senders, tasks, files, saved,
                   progress, harnessVars>>

\* `Some(event) = event_stream.next() => ...` for one event of the stream
EventStep(event) ==
    /\ pc = "select"
    /\ \E st \in {EventArm(Loop, event)} : Assign(st)
    /\ iter' = Calls("event", 0, 0)
    /\ UNCHANGED <<tasks, harnessVars>>

\* the stream yields any event, MaxEvents times at most; progress.orderly
\* records that every event so far was yielded when all earlier work was done
EventBranch ==
    /\ progress.typed < MaxEvents
    /\ \E event \in Events : EventStep(event)
    /\ progress' = [typed |-> progress.typed + 1,
                    orderly |-> progress.orderly /\ Quiescent]

\* `Some(cmd) = cmd_rx.recv() => tokio::spawn(...)`
CmdBranch ==
    /\ pc = "select"
    /\ cmd_rx # <<>>
    /\ cmd_rx' = Tail(cmd_rx)
    /\ tasks' = tasks (+) SetToBag({Head(cmd_rx)})
    /\ iter' = Calls("cmd", 0, 0)
    /\ UNCHANGED <<editorVars, err_rx, msg_rx, msg_senders, pc, result, files, saved,
                   progress, harnessVars>>

\* `Some(msg) = msg_rx.recv() => ...`
MsgBranch ==
    /\ pc = "select"
    /\ msg_rx # <<>>
    /\ \E io_ok \in BOOLEAN, outcome \in RenderOutcomes :
          \E st \in {MessageArm(Loop, io_ok, outcome)} :
              /\ Assign(st)
              /\ iter' = Calls(IF Head(msg_rx).type = "ParseCommandLineInput"
                                THEN "parse" ELSE "message", st.updates, st.renders)
    /\ UNCHANGED <<tasks, progress, harnessVars>>

\* a task that gives its message up when no permit is free (try_send)
TaskSend_try(rx, senders, m) ==
    IF Len(rx) < ChannelCapacity /\ senders = <<>>
    THEN [msg_rx |-> Append(rx, m), msg_senders |-> senders]
    ELSE [msg_rx |-> rx, msg_senders |-> senders]

\* msg_tx.send(cmd()).await of a spawned task: the message enters the channel
\* when a permit is free, else the task queues for one
TaskSend(rx, senders, m) ==
    IF Len(rx) < ChannelCapacity /\ senders = <<>>
    THEN [msg_rx |-> Append(rx, m), msg_senders |-> senders]
    ELSE [msg_rx |-> rx, msg_senders |-> Append(senders, m)]

\* a spawned task is polled: it calls the command and sends the message
TaskRun ==
    /\ pc \in {"select", "stuck"}
    /\ \E c \in BagToSet(tasks) :
          /\ tasks' = tasks (-) SetToBag({c})
          /\ \E r \in {TaskSend(msg_rx, msg_senders, RunCommand(c))} :
                 /\ msg_rx' = r.msg_rx
                 /\ msg_senders' = r.msg_senders
    /\ UNCHANGED <<editorVars, err_rx, cmd_rx, loopVars, harnessVars>>

Next ==
    \/ InitialRender
    \/ ErrBranch
    \/ EventBranch
    \/ CmdBranch
    \/ MsgBranch
    \/ TaskRun

Spec == Init /\ [][Next]_vars

(***************************************************************************)
(* The scripted session: the stream yields the keys of Script in order, at *)
(* any moment; progress.orderly records that every key so far was yielded  *)
(* when all earlier work was done.                                         *)
(***************************************************************************)
ScriptedKey ==
    /\ progress.typed < Len(Script)
    /\ EventStep(KeyPressed(Script[progress.typed + 1]))
    /\ progress' = [typed |-> progress.typed + 1,
                    orderly |-> progress.orderly /\ Quiescent]

NextSession ==
    \/ InitialRender
    \/ ErrBranch
    \/ ScriptedKey
    \/ CmdBranch
    \/ MsgBranch
    \/ TaskRun

SpecSession == Init /\ [][NextSession]_vars

(***************************************************************************)
(* Grammar harness: Normal.handle fed key by key, Execute.parse on a line. *)
(***************************************************************************)
HarnessKeys ==
    {KeyChar(c) : c \in {"0", "1", "3", "h", "j", "k", "l", ":", "i", "x"}}
        \cup {Key(k) : k \in {"Esc", "Home", "End", "PageUp", "PageDown", "Insert",
                               "Enter", "Tab"}}

FeedKey ==
    /\ mode.kind = "Normal"
    /\ Len(keys_fed) < MaxKeys
    /\ \E key \in HarnessKeys :
          \E r \in {NormalHandle(mode, key)} :
              /\ mode' = r.mode
              /\ keys_fed' = Append(keys_fed, key)
              /\ handled' = Append(handled, r.msg)
    /\ UNCHANGED <<root_component, should_quit, viewport, channelVars, loopVars,
                   command_string, subject, call>>

SpecNormal == Init /\ [][FeedKey]_vars

ParseChars == {"q", "w", " ", "x"}

InitParse ==
    /\ EditorInit
    /\ keys_fed = <<>>
    /\ handled = <<>>
    /\ command_string \in SeqsUpTo(ParseChars, MaxParseLen)
    /\ subject = None
    /\ call = NoCall

ParseLine ==
    /\ handled = <<>>
    /\ handled' = <<ExecuteParse(command_string)>>
    /\ UNCHANGED <<editorVars, channelVars, loopVars, keys_fed, command_string,
                   subject, call>>

SpecParse == InitParse /\ [][ParseLine]_vars

(***************************************************************************)
(* Text harness: a Document, default or opened from a file, under a few    *)
(* calls of insert, delete and insert_newline; a Row under one call of     *)
(* split followed by append, or of insert.  `call` records the receiver    *)
(* before the last call, its arguments and what it returned.               *)
(***************************************************************************)
FileChars == {"a", "\n"}

InsertChars == {"b", "U+0308"}

\* positions in, at the end of and past every row, and in the two rows
\* after the last
DocPositions(d) ==
    {Position(col, row - 1) : <<col, row>> \in
        UNION {{<<c, r>> : c \in 0..(RowLen(d.rows[r]) + 1)} : r \in 1..DocLen(d)}}
    \cup {Position(col, row) : col \in 0..1, row \in DocLen(d)..(DocLen(d) + 1)}

InitDocument ==
    /\ EditorInit
    /\ keys_fed = <<>>
    /\ handled = <<>>
    /\ command_string = <<>>
    /\ subject \in {DocumentDefault}
                    \cup {DocOpen("f", contents) : contents \in SeqsUpTo(FileChars, MaxFileLen)}
    /\ call = NoCall

DocumentInsert ==
    /\ call.n < MaxOps
    /\ \E at \in DocPositions(subject), ch \in InsertChars :
          \E r \in {DocInsert(subject, at, ch)} :
              /\ subject' = r.doc
              /\ call' = [op |-> "insert", before |-> subject, at |-> at, ch |-> ch,
                          ok |-> r.ok, n |-> call.n + 1]
    /\ UNCHANGED <<editorVars, channelVars, loopVars, keys_fed, handled, command_string>>

DocumentDelete ==
    /\ call.n < MaxOps
    /\ \E at \in DocPositions(subject) :
          /\ subject' = DocDelete(subject, at)
          /\ call' = [op |-> "delete", before |-> subject, at |-> at, n |-> call.n + 1]
    /\ UNCHANGED <<editorVars, channelVars, loopVars, keys_fed, handled, command_string>>

DocumentInsertNewline ==
    /\ call.n < MaxOps
    /\ \E at \in DocPositions(subject) :
          /\ subject' = DocInsertNewline(subject, at)
          /\ call' = [op |-> "insert_newline", before |-> subject, at |-> at,
                      n |-> call.n + 1]
    /\ UNCHANGED <<editorVars, channelVars, loopVars, keys_fed, handled, command_string>>

NextDocument == DocumentInsert \/ DocumentDelete \/ DocumentInsertNewline

SpecDocument == InitDocument /\ [][NextDocument]_vars

RowChars == {"a", "b", "U+0308"}

\* indices in, at the end of and past the row
RowIndices(r) == 0..(RowLen(r) + 1)

\* Row::from(&str) of any string
InitRow ==
    /\ EditorInit
    /\ keys_fed = <<>>
    /\ handled = <<>>
    /\ command_string = <<>>
    /\ subject \in SeqsUpTo(RowChars, MaxRowLen)
    /\ call = NoCall

\* `let tail = r.split(at)`
RowSplitCall ==
    /\ call.op = "none"
    /\ \E at \in RowIndices(subject) :
          \E sp \in {RowSplit(subject, at)} :
              /\ subject' = sp[1]
              /\ call' = [op |-> "split", before |-> subject, at |-> at, tail |-> sp[2],
                          n |-> call.n + 1]
    /\ UNCHANGED <<editorVars, channelVars, loopVars, keys_fed, handled, command_string>>

\* `r.append(&tail)` with the tail the split returned
RowAppendCall ==
    /\ call.op = "split"
    /\ subject' = RowAppend(subject, call.tail)
    /\ call' = [op |-> "append", before |-> call.before, at |-> call.at,
                tail |-> call.tail, n |-> call.n + 1]
    /\ UNCHANGED <<editorVars, channelVars, loopVars, keys_fed, handled, command_string>>

\* `r.insert(at, ch)`
RowInsertCall ==
    /\ call.op = "none"
    /\ \E at \in RowIndices(subject), ch \in RowChars :
          /\ subject' = RowInsert(subject, at, ch)
          /\ call' = [op |-> "insert", before |-> subject, at |-> at, ch |-> ch,
                      n |-> call.n + 1]
    /\ UNCHANGED <<editorVars, channelVars, loopVars, keys_fed, handled, command_string>>

\* the text x, y, x, ... of n characters
TextOf(n) == [i \in 1..n |-> IF i % 2 = 1 THEN "x" ELSE "y"]

\* texts shorter than, as long as and longer than a line, and one whose
\* only grapheme carries a combining mark
FrameTexts == {TextOf(n) : n \in 0..(FrameWidth + 1)} \cup {<<"x", "U+0308">>}

\* foreground and background of a line
FrameColors == {<<"Reset", "Reset">>, <<"Red", "Reset">>, <<"Reset", "Blue">>}

\* the two frames of Viewport::new
InitFrame ==
    /\ EditorInit
    /\ keys_fed = <<>>
    /\ handled = <<>>
    /\ command_string = <<>>
    /\ subject = ViewportFrames(RectNew(FrameWidth, FrameHeight))
    /\ call = NoCall

\* no call has panicked
FrameAlive == IF call.op = "none" THEN TRUE ELSE call.status = "ok"

\* a View writes a line into the current frame
FrameWriteLineCall ==
    /\ FrameAlive
    /\ call.n < MaxOps
    /\ \E row_number \in 0..(FrameHeight - 1), string \in FrameTexts, color \in FrameColors :
          \E r \in {FrameWriteLine(CurrentFrame(subject), row_number, string,
                                    color[1], color[2])} :
              /\ subject' = [subject EXCEPT !.frames[subject.current_frame_idx + 1] = r.frame]
              /\ call' = [op |-> "write_line", before |-> CurrentFrame(subject),
                          row_number |-> row_number, string |-> string,
                          foreground |-> color[1], background |-> color[2],
                          status |-> r.status, n |-> call.n + 1]
    /\ UNCHANGED <<editorVars, channelVars, loopVars, keys_fed, handled, command_string>>

\* `previous_frame.diff(&self.frames[self.current_frame_idx])`
FrameDiffCall ==
    /\ FrameAlive
    /\ call.op # "diff"
    /\ call' = [op |-> "diff", status |-> "ok", n |-> call.n,
                changes |-> FrameDiff(PreviousFrame(subject), CurrentFrame(subject))]
    /\ UNCHANGED <<editorVars, channelVars, loopVars, keys_fed, handled, command_string,
                   subject>>

\* Viewport::swap_buffers
FrameSwapCall ==
    /\ FrameAlive
    /\ call.n < MaxOps
    /\ subject' = SwapBuffers(subject)
    /\ call' = [op |-> "swap_buffers", status |-> "ok", n |-> call.n + 1]
    /\ UNCHANGED <<editorVars, channelVars, loopVars, keys_fed, handled, command_string>>

NextFrame == FrameWriteLineCall \/ FrameDiffCall \/ FrameSwapCall

SpecFrame == InitFrame /\ [][NextFrame]_vars

\* Rect::positioned with sides of at least 1, as the sizes of a terminal
\* and of the areas laid out in it are
InitRect ==
    /\ EditorInit
    /\ keys_fed = <<>>
    /\ handled = <<>>
    /\ command_string = <<>>
    /\ \E width \in 1..MaxSide, height \in 1..MaxSide, col \in 0..MaxSide, row \in 0..MaxSide :
          subject = RectPositioned(width, height, col, row)
    /\ call = NoCall

\* `rect.contains(&position)`, with the four edges as the accessors give them
RectContainsCall ==
    /\ call.op = "none"
    /\ \E col \in 0..(2 * MaxSide + 1), row \in 0..(2 * MaxSide + 1) :
          call' = [op |-> "contains", position |-> Position(col, row),
                   contains |-> RectContains(subject, Position(col, row)),
                   left |-> RectLeft(subject), right |-> RectRight(subject),
                   top |-> RectTop(subject), bottom |-> RectBottom(subject),
                   n |-> call.n + 1]
    /\ UNCHANGED <<editorVars, channelVars, loopVars, keys_fed, handled, command_string,
                   subject>>

SpecRect == InitRect /\ [][RectContainsCall]_vars

\* the messages a Buffer is sent
BufferMessages ==
    {Msg("Save"), SaveAs(<<"f">>), SaveAs(<<"g">>), InsertChar("b"), InsertChar("U+0308"),
     Msg("InsertLineBreak"), Msg("DeleteCharForward"), Msg("DeleteCharBackward"),
     Msg("MoveCursorPageUp"), Msg("MoveCursorPageDown"),
     Msg("MoveCursorLineStart"), Msg("MoveCursorLineEnd")}
    \cup {MsgN(t, n) : t \in {"MoveCursorUp", "MoveCursorDown", "MoveCursorLeft",
                               "MoveCursorRight"}, n \in 1..2}

\* a Buffer in the space a Window gives it, on the default document or on
\* one opened from the file f, with the file system holding that file
InitBuffer ==
    /\ EditorInit
    /\ keys_fed = <<>>
    /\ handled = <<>>
    /\ command_string = <<>>
    /\ \E space \in {buffer_space(WindowNew(RectNew(TermWidth, TermHeight), ModeDefault))} :
          \/ subject = [buffer |-> BufferNew(space, DocumentDefault), files |-> <<>>]
          \/ \E contents \in SeqsUpTo(FileChars, MaxFileLen) :
                subject = [buffer |-> BufferNew(space, DocOpen(<<"f">>, contents)),
                           files |-> (<<"f">> :> contents)]
    /\ call = NoCall

\* `buffer.update(msg)`; nothing follows a panic
BufferUpdateCall ==
    /\ IF call.op = "none" THEN TRUE ELSE call.status # "panic"
    /\ call.n < MaxOps
    /\ \E msg \in BufferMessages :
          \E io_ok \in IF msg.type \in {"Save", "SaveAs"} THEN BOOLEAN ELSE {TRUE} :
              \E r \in {BufferUpdate(subject.buffer, msg, subject.files, io_ok)} :
                  /\ subject' = [buffer |-> r.buffer, files |-> r.files]
                  /\ call' = [op |-> "update", before |-> subject, msg |-> msg,
                              status |-> r.status, n |-> call.n + 1]
    /\ UNCHANGED <<editorVars, channelVars, loopVars, keys_fed, handled, command_string>>

SpecBuffer == InitBuffer /\ [][BufferUpdateCall]_vars

NoPosition == [type |-> "None"]

SomePosition(p) == [type |-> "Some", position |-> p]

Line(row_number, string, foreground, background) ==
    [row_number |-> row_number, string |-> string,
     foreground |-> foreground, background |-> background]

\* a line of text in the default colours on the first row, as a Buffer or
\* the Welcome screen writes it, and a full-width line in colours on the
\* last row, as the StatusBar writes it
TextLine == Line(0, <<"x">>, "Reset", "Reset")

StatusLine == Line(FrameHeight - 1, TextOf(FrameWidth), "Rgb(63,63,63)", "Rgb(239,239,239)")

\* the views rendered: what their render_to writes and where it asks for
\* the cursor
RenderViews ==
    {[lines |-> <<>>, cursor |-> NoPosition],
     [lines |-> <<TextLine>>, cursor |-> SomePosition(Position(1, 0))],
     [lines |-> <<StatusLine>>, cursor |-> NoPosition],
     [lines |-> <<TextLine, StatusLine>>,
      cursor |-> SomePosition(Position(0, FrameHeight - 1))]}

InitViewport ==
    /\ EditorInit
    /\ keys_fed = <<>>
    /\ handled = <<>>
    /\ command_string = <<>>
    /\ subject = ViewportFrames(RectNew(FrameWidth, FrameHeight))
    /\ call = NoCall

\* the screen behind the canvas: one cell per position, blank in the default
\* colours at the start
ScreenBlank(area) == FrameEmpty(area).cells

\* Canvas::draw: every cell is put on the screen at its position, in order
CanvasDraw(screen, cells) ==
    [i \in 1..Len(screen) |->
        LET hits == {k \in 1..Len(cells) : cells[k].position = screen[i].position}
        IN  IF hits = {} THEN screen[i]
            ELSE cells[CHOOSE k \in hits : \A j \in hits : j <= k]]

\* the screen after the canvas calls of a trace, the last of which failed
\* when failed is TRUE (a failed draw is taken to draw nothing)
RECURSIVE ScreenAfter(_, _, _)
ScreenAfter(screen, trace, failed) ==
    IF trace = <<>> THEN screen
    ELSE ScreenAfter(IF Head(trace).step = "draw" /\ ~(failed /\ Len(trace) = 1)
                     THEN CanvasDraw(screen, Head(trace).cells)
                     ELSE screen,
                     Tail(trace), failed)

\* `self.viewport.render(&view)`; a failed render is the last one
ViewportRenderCall ==
    /\ IF call.op = "none" THEN TRUE ELSE call.status = "ok"
    /\ call.n < MaxRenders
    /\ \E view \in RenderViews, outcome \in CanvasOutcomes :
          \E r \in {ViewportRenderFrames(subject, view, outcome)} :
              /\ subject' = r.viewport
              /\ call' = [op |-> "render", before |-> subject, view |-> view,
                          status |-> r.status, trace |-> r.trace, n |-> call.n + 1,
                          screen |-> ScreenAfter(IF call.op = "none"
                                                 THEN ScreenBlank(subject.frames[1].area)
                                                 ELSE call.screen,
                                                 r.trace, outcome = "draw")]
    /\ UNCHANGED <<editorVars, channelVars, loopVars, keys_fed, handled, command_string>>

SpecViewport == InitViewport /\ [][ViewportRenderCall]_vars

(***************************************************************************)
(* The render_to of the components: each gives the write_line calls it     *)
(* makes, in order, and the cursor position it sets on the frame.          *)
(***************************************************************************)
Repeat(ch, n) == [i \in 1..n |-> ch]

\* format!("{}", n) of an unsigned number
RECURSIVE ToDecimal(_)
ToDecimal(n) ==
    LET digit == SubSeq(<<"0", "1", "2", "3", "4", "5", "6", "7", "8", "9">>,
                        (n % 10) + 1, (n % 10) + 1)
    IN  IF n < 10 THEN digit ELSE ToDecimal(n \div 10) \o digit

\* Display for Mode
ModeToString(m) ==
    CASE m.kind = "Execute" -> <<"C", "O", "M", "M", "A", "N", "D">>
      [] m.kind = "Insert" -> <<"I", "N", "S", "E", "R", "T">>
      [] m.kind = "Normal" -> <<"N", "O", "R", "M", "A", "L">>

\* Welcome::render_to; version is the package version of the build
WelcomeLines(size, version) ==
    LET banner == <<"V", "e", "l", "m", " ", "e", "d", "i", "t", "o", "r", " ", "-", "-", " ", "v", "e", "r", "s", "i", "o", "n", " ">> \o version
        padding == SatSub(size.width, Len(banner)) \div 2
        message == Take(<<"~">> \o Repeat(" ", SatSub(padding, 1)) \o banner, size.width)
    IN  [i \in 1..(size.height - 1) |->
            IF i - 1 = size.height \div 3
            THEN Line(i - 1, message, "Reset", "Reset")
            ELSE Line(i - 1, <<"~">>, "Reset", "Reset")]

\* View::render_to of Buffer: one line per row of its viewport
BufferLines(b) ==
    [i \in 1..b.viewport.height |->
        IF (i - 1) + b.offset.row < DocLen(b.document)
        THEN Line(i - 1,
                  RowToString(b.document.rows[i + b.offset.row], b.offset.col,
                              b.offset.col + b.viewport.width),
                  "Reset", "Reset")
        ELSE Line(i - 1, <<"~">>, "Gray", "Reset")]

\* Buffer::cursor_position: the cursor relative to the offset
BufferCursorPosition(b) ==
    Position(SatSub(b.cursor_position.col, b.offset.col),
             SatSub(b.cursor_position.row, b.offset.row))

\* View::render_to of StatusBar
StatusBarLine(area, mode_string, line_count, cursor_position, file_name) ==
    LET status == <<"M", "o", "d", "e", ":", " ", "[">> \o mode_string
                      \o <<"]", " ", " ", " ", " ", "F", "i", "l", "e", ":", " ">> \o file_name
        line_indicator == <<"L", ":", " ">> \o ToDecimal(cursor_position.row)
                              \o <<"/">> \o ToDecimal(line_count)
                              \o <<" ", "C", ":", " ">> \o ToDecimal(cursor_position.col + 1)
        len == Len(status) + Len(line_indicator)
        padded == IF area.width > len THEN status \o Repeat(" ", area.width - len)
                  ELSE status
    IN  Line(RectTop(area), Take(padded \o line_indicator, area.width),
             "Rgb(63,63,63)", "Rgb(239,239,239)")

\* View::render_to of TextInput: the place holder, or the prompt and the value
TextInputLine(t) ==
    IF RowLen(t.value) = 0 /\ t.place_holder # <<>> /\ ~t.focused
    THEN Line(t.position.row, t.place_holder, "Reset", "Reset")
    ELSE Line(t.position.row, t.prompt \o RowContents(t.value), "Reset", "Reset")

\* View::render_to of Window on the frame f: the lines written, in order,
\* and the cursor position the frame is left with
WindowRenderTo(w, f, version) ==
    LET body == IF w.buffers = <<>> THEN WelcomeLines(buffer_space(w), version)
                ELSE BufferLines(w.buffers[w.active_buffer_idx + 1])
        focused_buffer == w.buffers # <<>> /\ w.buffers[w.active_buffer_idx + 1].focused
        cursor0 == IF focused_buffer
                   THEN w.buffers[w.active_buffer_idx + 1].cursor_position
                   ELSE f.cursor_position
        cursor1 == IF w.mode.kind \in {"Normal", "Insert"}
                   THEN (IF w.buffers = <<>> THEN Position(0, 0)
                         ELSE BufferCursorPosition(w.buffers[w.active_buffer_idx + 1]))
                   ELSE cursor0
        status == StatusBarLine(
                      RectPositioned(w.size.width, 1, RectLeft(w.size), RectBottom(w.size) - 1),
                      ModeToString(w.mode), 0, cursor1, <<>>)
        prompt == w.command_prompt
        showing_place_holder ==
            RowLen(prompt.value) = 0 /\ prompt.place_holder # <<>> /\ ~prompt.focused
        cursor2 == IF prompt.focused /\ ~showing_place_holder
                   THEN Position(prompt.cursor_position + Len(prompt.prompt),
                                 prompt.position.row)
                   ELSE cursor1
    IN  [lines |-> body \o <<status, TextInputLine(prompt)>>,
         cursor |-> SomePosition(cursor2)]

\* `r.delete(at)`
RowDeleteCall ==
    /\ call.op = "none"
    /\ \E at \in RowIndices(subject) :
          /\ subject' = RowDelete(subject, at)
          /\ call' = [op |-> "delete", before |-> subject, at |-> at, n |-> call.n + 1]
    /\ UNCHANGED <<editorVars, channelVars, loopVars, keys_fed, handled, command_string>>

NextRow == RowSplitCall \/ RowAppendCall \/ RowInsertCall \/ RowDeleteCall

SpecRow == InitRow /\ [][NextRow]_vars

(***************************************************************************)
(* The Window rendered after every message of a typing session: the keys   *)
(* are typed one at a time, each after the work of the earlier one is      *)
(* done, on a terminal just wide enough for the place holder of the        *)
(* command line.                                                           *)
(***************************************************************************)
Versions == {<<"0", ".", "1", ".", "0">>}

WindowKeys == {KeyChar(":"), KeyChar("i"), KeyChar("w"), Key("Backspace"), Key("Esc")}

\* the keys typed on the command line and in the document: one letter, so
\* that a text is told by its length
TypingKeys == {KeyChar("w"), Key("Backspace"), Key("Esc")}

\* the message arm for the message m, up to the render.  The modes follow
\* an EnterMode.  ParseCommandLineInput stays in the loop: in Execute mode
\* the line is parsed, the mode set to Normal and the parsed message, if
\* any, sent.  Any other message updates the Window.  next is the message
\* that follows from this one: the parsed one, or the one of the command the
\* update returned; updated tells that Window::update was called.
ApplyMessage(s, m) ==
    IF m.type = "ParseCommandLineInput"
    THEN IF s.mode.kind = "Execute"
         THEN [state |-> [s EXCEPT !.mode = NormalDefault], status |-> "ok",
               next |-> ExecuteParse(m.input), updated |-> FALSE]
         ELSE [state |-> s, status |-> "ok", next |-> None, updated |-> FALSE]
    ELSE Bind(WindowUpdate(s.window, m, <<>>, TRUE), LAMBDA u :
            [state |-> [s EXCEPT !.mode = IF m.type = "EnterMode" THEN m.mode ELSE @,
                                 !.window = u.window],
             status |-> u.status,
             next |-> IF u.status = "ok" /\ u.cmd.type = "SomeCmd"
                      THEN Some(RunCommand(u.cmd.cmd)) ELSE None,
             updated |-> TRUE])

\* the message m and the messages that follow from it, applied in turn
RECURSIVE ApplyChain(_, _)
ApplyChain(s, m) ==
    Bind(ApplyMessage(s, m), LAMBDA first :
        IF first.status = "ok" /\ first.next.type = "Some"
        THEN Bind(ApplyChain(first.state, first.next.msg), LAMBDA rest :
                [state |-> rest.state, status |-> rest.status,
                 messages |-> <<m>> \o rest.messages])
        ELSE [state |-> first.state, status |-> first.status, messages |-> <<m>>])

\* the key is handled by the mode; its message, and the messages that
\* follow from it, are applied
PressKey(s, key) ==
    Bind(ModeHandle(s.mode, key), LAMBDA h :
    Bind([s EXCEPT !.mode = h.mode], LAMBDA s1 :
        IF h.msg.type # "Some"
        THEN [state |-> s1, status |-> "ok", messages |-> <<>>]
        ELSE ApplyChain(s1, h.msg.msg)))

\* one turn of the message arm for the message m: after a Window::update
\* that did not fail the Window is rendered into the current frame of the
\* Viewport, whose frames are then swapped (the canvas calls of
\* Viewport::render, all succeeding here, leave the frames alone); renders
\* keeps, for every render, the frame rendered into and the lines written
ProcessMessage(s, m) ==
    Bind(ApplyMessage(s, m), LAMBDA a :
    Bind(a.state, LAMBDA s1 :
        IF a.status # "ok" \/ ~a.updated
        THEN [state |-> s1, status |-> a.status, next |-> a.next, renders |-> <<>>]
        ELSE Bind(WindowRenderTo(s1.window, CurrentFrame(s1.viewport), s1.version),
                  LAMBDA view :
             Bind(RenderTo(view, CurrentFrame(s1.viewport)), LAMBDA r :
             Bind([s1.viewport EXCEPT !.frames[s1.viewport.current_frame_idx + 1] = r.frame],
                  LAMBDA v1 :
                [state |-> [s1 EXCEPT !.viewport = IF r.status = "ok" THEN SwapBuffers(v1)
                                                   ELSE v1],
                 status |-> r.status,
                 next |-> a.next,
                 renders |-> <<[frame |-> CurrentFrame(s1.viewport),
                                lines |-> view.lines]>>])))))

\* the message m and the messages that follow from it, processed in turn
RECURSIVE ProcessChain(_, _)
ProcessChain(s, m) ==
    Bind(ProcessMessage(s, m), LAMBDA first :
        IF first.status = "ok" /\ first.next.type = "Some"
        THEN Bind(ProcessChain(first.state, first.next.msg), LAMBDA rest :
                [state |-> rest.state, status |-> rest.status,
                 messages |-> <<m>> \o rest.messages,
                 renders |-> first.renders \o rest.renders])
        ELSE [state |-> first.state, status |-> first.status, messages |-> <<m>>,
              renders |-> first.renders])

\* the key is handled by the mode; its message, and the messages that
\* follow from it, are processed
TypeKey(s, key) ==
    Bind(ModeHandle(s.mode, key), LAMBDA h :
    Bind([s EXCEPT !.mode = h.mode], LAMBDA s1 :
        IF h.msg.type # "Some"
        THEN [state |-> s1, status |-> "ok", messages |-> <<>>, renders |-> <<>>]
        ELSE ProcessChain(s1, h.msg.msg)))

\* the characters typed so far: on the command line, or in the document
TypedLen(s) ==
    IF s.window.mode.kind = "Execute" THEN Len(s.window.command_prompt.value)
    ELSE IF s.window.buffers = <<>> THEN 0
    ELSE LET rows == s.window.buffers[1].document.rows
         IN  Cardinality({p \in (1..Len(rows)) \X (1..PromptWidth) :
                              p[2] <= Len(rows[p[1]])})

InitWindow ==
    /\ EditorInit
    /\ keys_fed = <<>>
    /\ handled = <<>>
    /\ command_string = <<>>
    /\ \E version \in Versions :
          subject = [mode |-> ModeDefault,
                     window |-> WindowNew(RectNew(PromptWidth, TermHeight), ModeDefault),
                     viewport |-> ViewportFrames(RectNew(PromptWidth, TermHeight)),
                     version |-> version]
    /\ call = NoCall

\* a key is typed and its work is done; nothing follows a panic
WindowKeyCall ==
    /\ IF call.op = "none" THEN TRUE ELSE call.status = "ok"
    /\ \E key \in IF subject.mode.kind = "Normal" THEN WindowKeys ELSE TypingKeys :
          /\ key.key = "Char" =>
                TypedLen(subject) < (IF subject.mode.kind = "Execute" THEN PromptWidth
                                     ELSE MaxOps)
          /\ \E r \in {TypeKey(subject, key)} :
                /\ subject' = r.state
                /\ call' = [op |-> "key", key |-> key, status |-> r.status,
                            renders |-> r.renders, n |-> 0]
    /\ UNCHANGED <<editorVars, channelVars, loopVars, keys_fed, handled, command_string>>

SpecWindow == InitWindow /\ [][WindowKeyCall]_vars

(***************************************************************************)
(* A typing session without the rendering: the keys are typed one at a     *)
(* time, each after the work of the earlier one is done.                   *)
(***************************************************************************)
LineChars == {"w", "x", "U+0308"}

\* the keys typed, by the mode that handles them
SessionKeys(m) ==
    CASE m.kind = "Normal" ->
            {KeyChar(c) : c \in {":", "i", "w", "3"}}
                \cup {Key("Esc"), Key("Tab"), Key("Insert")}
      [] m.kind = "Execute" ->
            {KeyChar(c) : c \in LineChars}
                \cup {Key(k) : k \in {"Enter", "Esc", "Left", "Right", "Home", "End",
                                       "Backspace", "Delete"}}
      [] m.kind = "Insert" -> {KeyChar("w"), Key("Backspace"), Key("Enter"), Key("Esc")}

InitSession ==
    /\ EditorInit
    /\ keys_fed = <<>>
    /\ handled = <<>>
    /\ command_string = <<>>
    /\ subject = [mode |-> ModeDefault,
                  window |-> WindowNew(RectNew(TermWidth, TermHeight), ModeDefault)]
    /\ call = NoCall

\* a key is typed and its work is done; nothing follows a panic or an
\* error.  The command line takes MaxParseLen characters, the document
\* MaxOps keys that make it grow, and Right is typed while the cursor of the
\* command line is at most MaxParseLen + 1.
SessionKeyCall ==
    /\ IF call.op = "none" THEN TRUE ELSE call.status = "ok"
    /\ \E key \in SessionKeys(subject.mode) :
          /\ (subject.mode.kind = "Execute" /\ key.key = "Char")
                => Len(subject.window.command_prompt.value) < MaxParseLen
          /\ (subject.mode.kind = "Execute" /\ key.key = "Right")
                => subject.window.command_prompt.cursor_position <= MaxParseLen + 1
          /\ (subject.mode.kind = "Insert" /\ key.key \in {"Char", "Enter"})
                => /\ subject.window.buffers # <<>>
                   /\ Len(FileContents(subject.window.buffers[1].document.rows))
                         <= MaxOps
          /\ \E r \in {PressKey(subject, key)} :
                /\ subject' = r.state
                /\ call' = [op |-> "press", key |-> key, before |-> subject,
                            messages |-> r.messages, status |-> r.status, n |-> 0]
    /\ UNCHANGED <<editorVars, channelVars, loopVars, keys_fed, handled, command_string>>

SpecTyping == InitSession /\ [][SessionKeyCall]_vars

(***************************************************************************)
(* Properties of the scripted session.                                     *)
(***************************************************************************)
\* a Save or Quit message is on its way to the loop
SaveOrQuitPending ==
    \E m \in {Msg("Save"), Msg("Quit")} :
        \/ \E i \in 1..Len(msg_rx) : msg_rx[i] = m
        \/ \E i \in 1..Len(msg_senders) : msg_senders[i] = m

\* C1: in the session i h i Esc : w q Enter : w Enter, every key typed once
\* the work of the earlier keys is done, the keys `:wq` Enter produce no Save
\* and no Quit (nothing is saved, the loop keeps running), and once the work
\* of the final `:w` Enter is done Document.save(None) has been invoked.
C1_WqRejectedAndWSaves ==
    progress.orderly =>
        /\ progress.typed = 8 =>
              /\ ~SaveOrQuitPending
              /\ ~should_quit
              /\ saved = {}
        /\ (progress.typed = Len(Script) /\ Quiescent) => None \in saved

(***************************************************************************)
(* Properties of the Normal-mode grammar, fed key by key.                  *)
(***************************************************************************)
\* the characters of the keys fed so far, when all of them are Char keys
AllChars(ks) == \A i \in 1..Len(ks) : ks[i].key = "Char"

KeysText(ks) == [i \in 1..Len(ks) |-> ks[i].ch]

IsNumber(ds) ==
    /\ \A i \in 1..Len(ds) : ds[i] \in Digits
    /\ ds # <<>> => ds[1] # "0"

DirectionOf(c) ==
    CASE c = "h" -> "MoveCursorLeft"
      [] c = "j" -> "MoveCursorDown"
      [] c = "k" -> "MoveCursorUp"
      [] c = "l" -> "MoveCursorRight"

\* C2: from an empty input buffer, a number not starting with 0 followed by
\* one of h/j/k/l, fed key by key, yields on the last key the directional
\* move with that number as its count ('3' 'j' yields MoveCursorDown(3)); the
\* movement key alone yields count 1.
C2_CountedMovement ==
    LET n == Len(keys_fed)
    IN  (/\ n >= 1
         /\ AllChars(keys_fed)
         /\ keys_fed[n].ch \in {"h", "j", "k", "l"}
         /\ IsNumber(SubSeq(KeysText(keys_fed), 1, n - 1)))
        => handled[n] = Some([type |-> DirectionOf(keys_fed[n].ch),
                              n |-> IF n = 1 THEN 1
                                    ELSE ParseUsize(SubSeq(KeysText(keys_fed), 1, n - 1))])

\* C3: as long as only printable keys have been handled and none of them
\* completed a grammar rule (no call returned a message), the input buffer
\* holds every character fed: unmatched input is retained across calls.
C3_UnmatchedInputRetained ==
    (/\ AllChars(keys_fed)
     /\ \A i \in 1..Len(handled) : handled[i] = None)
    => mode.input_buffer = KeysText(keys_fed)

(***************************************************************************)
(* Properties of Execute::parse.                                           *)
(***************************************************************************)
\* C4: Execute.parse maps "q" to Quit, "w" to Save, "w " followed by one or
\* more characters to SaveAs of those characters, and every other string to
\* no message.
C4_ParseTable ==
    handled # <<>> =>
        handled[1] =
            IF command_string = <<"q">> THEN Some(Msg("Quit"))
            ELSE IF command_string = <<"w">> THEN Some(Msg("Save"))
            ELSE IF /\ Len(command_string) >= 3
                    /\ command_string[1] = "w"
                    /\ command_string[2] = " "
            THEN Some(SaveAs(SubSeq(command_string, 3, Len(command_string))))
            ELSE None

\* a line with a file name has been parsed into SaveAs
C4_Witness ==
    /\ command_string = <<"w", " ", "x">>
    /\ handled = <<Some(SaveAs(<<"x">>))>>

(***************************************************************************)
(* Properties of the loop of Editor::consume.                              *)
(***************************************************************************)
\* C5: the loop is never suspended in a send on one of its own channels
\* that only the loop itself could drain.
C5_LoopNeverBlocks == pc # "stuck"

C7_QuitEndsLoop ==
    should_quit => (pc = "returned" /\ iter = Calls("message", 1, 1))

\* C8: when consume returns Ok no error is left unreported, and from the
\* moment an error is queued the loop takes no key event, command or
\* message: its next step returns that error.
C8_ErrorEndsLoop ==
    /\ [](pc = "returned" /\ result.type = "Ok" => err_rx = <<>>)
    /\ [][err_rx # <<>> => ~(EventBranch \/ CmdBranch \/ MsgBranch)]_vars

\* the scheduling of the runtime: a ready arm of the select is eventually
\* taken, a spawned task is eventually polled; the stream owes no event
FairSpec ==
    /\ Spec
    /\ WF_vars(InitialRender)
    /\ WF_vars(ErrBranch)
    /\ WF_vars(CmdBranch)
    /\ WF_vars(MsgBranch)
    /\ WF_vars(TaskRun)

\* consume has returned or panicked, or an error waits to end it
LoopEnded == pc \in {"returned", "panicked"} \/ err_rx # <<>>

\* C9: under fair scheduling, while the loop is running, a command returned
\* by the root update is eventually taken from the command channel, run in
\* a task, and its message let into the message channel for the loop.
C9_CommandsComplete ==
    /\ (cmd_rx # <<>>) ~> (cmd_rx = <<>> \/ LoopEnded)
    /\ (tasks # EmptyBag) ~> (tasks = EmptyBag \/ LoopEnded)
    /\ (msg_senders # <<>>) ~> (msg_senders = <<>> \/ LoopEnded)

\* C10: the mode is initially Normal with an empty input buffer, and the
\* mode variant changes only in a loop step that receives an EnterMode
\* message.
C10_ModeChangesOnlyByEnterMode ==
    /\ mode = [kind |-> "Normal", input_buffer |-> <<>>]
    /\ [][mode'.kind # mode.kind =>
            (pc = "select" /\ msg_rx # <<>> /\ Head(msg_rx).type = "EnterMode")]_vars

\* w2 differs from w at most in the command-line TextInput
OnlyPromptMayChange(w, w2) == w2 = [w EXCEPT !.command_prompt = w2.command_prompt]

\* w2 differs from w at most in the active buffer
OnlyActiveBufferMayChange(w, w2) ==
    /\ w2.command_prompt = w.command_prompt
    /\ w2.mode = w.mode
    /\ w2.size = w.size
    /\ w2.active_buffer_idx = w.active_buffer_idx
    /\ Len(w2.buffers) = Len(w.buffers)
    /\ \A i \in 1..Len(w.buffers) :
          i # w.active_buffer_idx + 1 => w2.buffers[i] = w.buffers[i]

\* C11: in a loop step that passes a message other than EnterMode to
\* Window::update, when Window's mode is Execute only the command-line
\* TextInput may change and every buffer is unchanged; otherwise only the
\* active buffer may change and the TextInput is unchanged.
C11_RoutedToOneChild ==
    [][(MsgBranch /\ iter'.updates = 1 /\ Head(msg_rx).type # "EnterMode") =>
          IF root_component.mode.kind = "Execute"
          THEN OnlyPromptMayChange(root_component, root_component')
          ELSE OnlyActiveBufferMayChange(root_component, root_component')]_vars

\* a character has been delivered to the command-line input of a Window
\* that holds a buffer
C11_Witness ==
    /\ iter = Calls("message", 1, 1)
    /\ root_component.mode.kind = "Execute"
    /\ root_component.buffers # <<>>
    /\ RowLen(root_component.command_prompt.value) > 0

\* C12: a step of a spawned command task leaves the Window with its buffers,
\* documents and command-line input, the editor's mode, the viewport and
\* the files unchanged, and its only effect is that the message of one
\* spawned command is enqueued for the loop; every change of component
\* state, mode or viewport happens in a step of the primary loop.
C12_TasksOnlySendMessages ==
    /\ [][TaskRun =>
            /\ UNCHANGED <<mode, root_component, should_quit, viewport, files, saved,
                           err_rx, cmd_rx>>
            /\ \E c \in BagToSet(tasks) :
                  /\ tasks' = tasks (-) SetToBag({c})
                  /\ msg_rx' \o msg_senders' =
                        (msg_rx \o msg_senders) \o <<RunCommand(c)>>]_vars
    /\ [][(mode' # mode \/ root_component' # root_component \/ viewport' # viewport) =>
            (InitialRender \/ EventBranch \/ MsgBranch)]_vars

\* the message of a command, which only a task sends, waits for the loop
\* behind another message
C12_Witness ==
    /\ msg_senders # <<>>
    /\ Head(msg_senders).type = "ParseCommandLineInput"
    /\ tasks = EmptyBag

(***************************************************************************)
(* Properties of Document.                                                 *)
(***************************************************************************)
\* C13: a Document from Document::default or Document::open, after any
\* calls of insert, delete and insert_newline, has at least one row, and a
\* fresh document has exactly one empty row.
C13_DocumentNeverEmpty ==
    /\ DocLen(subject) >= 1
    /\ DocumentDefault.rows = <<RowDefault>>

RECURSIVE Concat(_)
Concat(seqs) == IF seqs = <<>> THEN <<>> ELSE Head(seqs) \o Concat(Tail(seqs))

\* the characters of the graphemes from index `from` (counted from 0) up to,
\* not including, index `to`
GraphemeSlice(r, from, to) == Concat(SubSeq(Graphemes(r), from + 1, Min(to, RowLen(r))))

\* rows `from`..`to` of `after` are rows `from + shift`..`to + shift` of `before`
SameRows(after, before, from, to, shift) ==
    \A i \in from..to : after.rows[i] = before.rows[i + shift]

\* C14: after insert(pos, ch), if pos.row was the row count one new row
\* holding only ch has been appended; if pos.row was less, that row holds
\* its graphemes before index pos.col, then ch, then its remaining
\* graphemes, and the row count and the other rows are as before; if
\* pos.row was greater the call returned an error and the document, rows
\* and file name, is as before.
C14_InsertThreeWay ==
    call.op = "insert" =>
        LET d == call.before
            n == DocLen(call.before)
            r == call.at.row
            c == call.at.col
        IN  IF r = n
            THEN /\ call.ok
                 /\ subject = [d EXCEPT !.rows = Append(d.rows, <<call.ch>>)]
            ELSE IF r < n
            THEN /\ call.ok
                 /\ DocLen(subject) = n
                 /\ subject.file_name = d.file_name
                 /\ SameRows(subject, d, 1, r, 0)
                 /\ SameRows(subject, d, r + 2, n, 0)
                 /\ subject.rows[r + 1] =
                        GraphemeSlice(d.rows[r + 1], 0, c) \o <<call.ch>>
                            \o GraphemeSlice(d.rows[r + 1], c, RowLen(d.rows[r + 1]))
            ELSE /\ ~call.ok
                 /\ subject = d

\* an insert past the row after the last row of a document that has rows
C14_Witness ==
    /\ call.op = "insert"
    /\ call.at.row > DocLen(call.before)
    /\ DocLen(call.before) > 1
    /\ call.before.rows[1] # <<>>

\* C15: delete(pos) changes nothing when pos.row is at or past the row
\* count; when pos.col is the grapheme length of the row and a next row
\* exists, the row becomes its content followed by the next row's, the
\* next row is gone, and the concatenated content is as before; otherwise
\* the row loses exactly its grapheme at pos.col, or nothing when pos.col
\* is at or past its length, and the row count is as before.
C15_DeleteJoinsOrRemoves ==
    call.op = "delete" =>
        LET d == call.before
            n == DocLen(call.before)
            r == call.at.row
            c == call.at.col
        IN  IF r >= n
            THEN subject = d
            ELSE /\ subject.file_name = d.file_name
                 /\ SameRows(subject, d, 1, r, 0)
                 /\ IF c = RowLen(d.rows[r + 1]) /\ r + 1 < n
                    THEN /\ DocLen(subject) = n - 1
                         /\ subject.rows[r + 1] = d.rows[r + 1] \o d.rows[r + 2]
                         /\ SameRows(subject, d, r + 2, n - 1, 1)
                         /\ Concat(subject.rows) = Concat(d.rows)
                    ELSE /\ DocLen(subject) = n
                         /\ SameRows(subject, d, r + 2, n, 0)
                         /\ subject.rows[r + 1] =
                                IF c >= RowLen(d.rows[r + 1]) THEN d.rows[r + 1]
                                ELSE Concat(RemoveAt(Graphemes(d.rows[r + 1]), c + 1))

\* a delete at the end of a row has joined two rows that both had content
C15_Witness ==
    /\ call.op = "delete"
    /\ call.at.row + 1 < DocLen(call.before)
    /\ call.at.col = RowLen(call.before.rows[call.at.row + 1])
    /\ call.before.rows[call.at.row + 1] # <<>>
    /\ call.before.rows[call.at.row + 2] # <<>>

\* C16: after insert_newline(pos), for pos.row below the row count the row
\* holds its first pos.col graphemes, a new row right after it holds the
\* remaining graphemes, and the other rows are as before and in order
\* (row count + 1); for pos.row equal to the row count one empty row has
\* been appended; for pos.row greater nothing has changed.
C16_NewlineSplitsRow ==
    call.op = "insert_newline" =>
        LET d == call.before
            n == DocLen(call.before)
            r == call.at.row
            c == call.at.col
        IN  IF r > n
            THEN subject = d
            ELSE IF r = n
            THEN subject = [d EXCEPT !.rows = Append(d.rows, <<>>)]
            ELSE /\ subject.file_name = d.file_name
                 /\ DocLen(subject) = n + 1
                 /\ SameRows(subject, d, 1, r, 0)
                 /\ subject.rows[r + 1] = GraphemeSlice(d.rows[r + 1], 0, c)
                 /\ subject.rows[r + 2] =
                        GraphemeSlice(d.rows[r + 1], c, RowLen(d.rows[r + 1]))
                 /\ SameRows(subject, d, r + 3, n + 1, -1)

\* an insert_newline inside a row has left content on both sides
C16_Witness ==
    /\ call.op = "insert_newline"
    /\ call.at.row < DocLen(call.before)
    /\ subject.rows[call.at.row + 1] # <<>>
    /\ subject.rows[call.at.row + 2] # <<>>
    /\ DocLen(call.before) > 1

(***************************************************************************)
(* Properties of Row.                                                      *)
(***************************************************************************)
\* C17: for every row and every index at (0, len and past len included),
\* after tail = r.split(at) the row holds its first min(at, len) graphemes
\* and tail holds the rest, and after r.append(tail) the row has exactly
\* its original content.
C17_SplitAppendRoundTrip ==
    /\ call.op = "split" =>
          /\ subject = GraphemeSlice(call.before, 0, Min(call.at, RowLen(call.before)))
          /\ call.tail = GraphemeSlice(call.before, Min(call.at, RowLen(call.before)),
                                       RowLen(call.before))
    /\ call.op = "append" => subject = call.before

\* a row whose second grapheme carries a combining mark has been split
\* after its first grapheme and put together again
C17_Witness ==
    /\ call.op = "append"
    /\ call.at = 1
    /\ RowLen(call.before) = 2
    /\ Len(call.before) = 3
    /\ call.tail # <<>>

\* C18: insert(at, ch) increases len() by exactly 1 and puts ch at grapheme
\* index min(at, old len) with the other graphemes in their order; on an
\* empty row the result is the row holding ch alone, for insert at len()
\* and at 0 alike.
C18_InsertAddsOneGrapheme ==
    call.op = "insert" =>
        /\ RowLen(subject) = RowLen(call.before) + 1
        /\ Graphemes(subject) =
              InsertAt(Graphemes(call.before), Min(call.at, RowLen(call.before)) + 1,
                       <<call.ch>>)
        /\ call.before = <<>> => subject = <<call.ch>>

(***************************************************************************)
(* Properties of Frame.                                                    *)
(***************************************************************************)
\* indices (from 0) at which the cells of two frames differ in symbol,
\* foreground or background
DifferingAt(previous, current) ==
    {i \in 0..(Len(current.cells) - 1) :
        \/ previous.cells[i + 1].symbol # current.cells[i + 1].symbol
        \/ previous.cells[i + 1].foreground # current.cells[i + 1].foreground
        \/ previous.cells[i + 1].background # current.cells[i + 1].background}

\* C19: the diff of the previous and the current frame, of identical
\* geometry, is a list of references to cells of the current frame (the
\* `other` of the call), at exactly the indices where the cells of the two
\* frames differ in symbol, foreground or background, in increasing index
\* order; one reference when exactly one cell differs, none when the
\* frames are equal.
C19_DiffReturnsChangedCells ==
    call.op = "diff" =>
        LET changes == call.changes
            differing == DifferingAt(PreviousFrame(subject), CurrentFrame(subject))
        IN  /\ \A k \in 1..Len(changes) : changes[k].cell_of = "other"
            /\ {changes[k].index : k \in 1..Len(changes)} = differing
            /\ \A k \in 1..(Len(changes) - 1) : changes[k].index < changes[k + 1].index
            /\ Cardinality(differing) = 1 => Len(changes) = 1
            /\ PreviousFrame(subject).cells = CurrentFrame(subject).cells => changes = <<>>

\* a diff of two frames that differ in one cell by the foreground alone and
\* in another by the symbol
C19_Witness ==
    /\ call.op = "diff"
    /\ Len(call.changes) >= 2
    /\ \E i \in 1..Len(CurrentFrame(subject).cells) :
          /\ CurrentFrame(subject).cells[i].symbol = PreviousFrame(subject).cells[i].symbol
          /\ CurrentFrame(subject).cells[i].foreground
                # PreviousFrame(subject).cells[i].foreground

\* C20: after write_line(row, text, fg, bg) with k <= width graphemes in
\* text, cell (i, row) holds the i-th grapheme of text with colours fg and
\* bg for i < k, and has the symbol ' ' for k <= i < width, whatever the
\* row held before.
C20_WriteLineReplacesRow ==
    (call.op = "write_line" /\ RowLen(call.string) <= FrameWidth) =>
        /\ call.status = "ok"
        /\ \A i \in 0..(FrameWidth - 1) :
              LET cell == CurrentFrame(subject).cells[call.row_number * FrameWidth + i + 1]
              IN  /\ cell.position = Position(i, call.row_number)
                  /\ IF i < RowLen(call.string)
                     THEN /\ cell.symbol = Graphemes(call.string)[i + 1]
                          /\ cell.foreground = call.foreground
                          /\ cell.background = call.background
                     ELSE cell.symbol = <<" ">>

\* a text shorter than the line has been written over a row whose cells
\* after the text held symbols
C20_Witness ==
    /\ call.op = "write_line"
    /\ RowLen(call.string) > 0
    /\ \E i \in RowLen(call.string)..(FrameWidth - 1) :
          call.before.cells[call.row_number * FrameWidth + i + 1].symbol # <<" ">>

(***************************************************************************)
(* Properties of Viewport::render.                                         *)
(***************************************************************************)
\* the names of the steps of a trace
StepNames(trace) == [k \in 1..Len(trace) |-> trace[k].step]

\* the frame the view was rendered into, after render_to
RenderedFrame == RenderTo(call.view, CurrentFrame(call.before)).frame

\* C21: in every successful render the canvas calls are, once each and in
\* this order, hide_cursor, draw of the diff, position_cursor at the
\* cursor the rendered frame asks for, show_cursor, flush; the view is
\* rendered into the frame before the diff is computed, and the stale
\* frame is reset and the roles of the frames swapped after show_cursor
\* and before flush.
C21_RenderCallOrder ==
    (call.op = "render" /\ call.status = "ok") =>
        /\ StepNames(call.trace) =
              <<"hide_cursor", "render_to", "diff", "draw", "position_cursor",
                "show_cursor", "reset", "swap", "flush">>
        /\ call.trace[4].cells =
              DiffCells(FrameDiff(PreviousFrame(call.before), RenderedFrame), RenderedFrame)
        /\ call.trace[5].row = RenderedFrame.cursor_position.row
        /\ call.trace[5].col = RenderedFrame.cursor_position.col
        /\ subject.current_frame_idx = 1 - call.before.current_frame_idx
        /\ PreviousFrame(subject) = RenderedFrame
        /\ CurrentFrame(subject) = FrameReset(PreviousFrame(call.before))

\* a successful render that drew changed cells and asked for a cursor away
\* from the origin, after an earlier render
C21_Witness ==
    /\ call.op = "render"
    /\ call.status = "ok"
    /\ call.n > 1
    /\ call.trace[4].cells # <<>>
    /\ call.trace[5].row > 0

\* C22: whenever a render can start, the frame about to be written is
\* equal to Frame::empty(area) in every cell: symbol ' ' and the default
\* foreground and background.
C22_BackFrameBlank ==
    (IF call.op = "none" THEN TRUE ELSE call.status = "ok") =>
        CurrentFrame(subject).cells = FrameEmpty(CurrentFrame(subject).area).cells

(***************************************************************************)
(* Properties of Buffer.                                                   *)
(***************************************************************************)
\* the files other than `name` are as before the call
OtherFilesKept(name) ==
    /\ DOMAIN subject.files = DOMAIN call.before.files \cup {name}
    /\ \A f \in DOMAIN call.before.files \ {name} : subject.files[f] = call.before.files[f]

\* C23: after the buffer has processed SaveAs(name) successfully the
\* document's file name is name; only SaveAs changes the file name, so every
\* later Save writes to it; a successful save leaves in the target file
\* exactly the rows in order, each followed by a line feed, whatever the
\* file held; Save on a document without a file name succeeds, writes
\* nothing and leaves the file name absent.
C23_SaveWritesRows ==
    call.op = "update" =>
        LET before == call.before.buffer.document
            after == subject.buffer.document
        IN  /\ after.rows = before.rows \/ call.msg.type \notin {"Save", "SaveAs"}
            /\ call.msg.type # "SaveAs" => after.file_name = before.file_name
            /\ (call.msg.type = "SaveAs" /\ call.status = "ok") =>
                  /\ after.file_name = SomeName(call.msg.name)
                  /\ subject.files[call.msg.name] = FileContents(before.rows)
                  /\ OtherFilesKept(call.msg.name)
            /\ (call.msg.type = "Save" /\ before.file_name.type = "SomeName"
                    /\ call.status = "ok") =>
                  /\ subject.files[before.file_name.name] = FileContents(before.rows)
                  /\ OtherFilesKept(before.file_name.name)
            /\ (call.msg.type = "Save" /\ before.file_name.type # "SomeName") =>
                  /\ call.status = "ok"
                  /\ subject.files = call.before.files

\* a Save after a SaveAs under a new name has written a document of
\* several rows over the file of that name
C23_Witness ==
    /\ call.op = "update"
    /\ call.msg.type = "Save"
    /\ call.status = "ok"
    /\ call.n = MaxOps
    /\ subject.buffer.document.file_name = SomeName(<<"g">>)
    /\ DocLen(subject.buffer.document) > 1
    /\ <<"g">> \in DOMAIN subject.files

(***************************************************************************)
(* Further properties of the Normal-mode keys.                             *)
(***************************************************************************)
\* the key and the returned message of the call of Normal::handle just made
LastKey == keys_fed'[Len(keys_fed')]

LastHandled == handled'[Len(handled')]

\* C24: Normal::handle with an empty input buffer returns EnterMode(Execute)
\* for Char(':') and EnterMode(Insert) for Char('i'); for Home, End,
\* PageUp, PageDown, Insert and Enter it returns MoveCursorLineStart,
\* MoveCursorLineEnd, MoveCursorPageUp, MoveCursorPageDown,
\* EnterMode(Insert) and MoveCursorDown(1) and leaves the input buffer as
\* it was: the grammar is not run.
C24_DirectKeys ==
    [][FeedKey =>
        /\ (mode.input_buffer = <<>> /\ LastKey = KeyChar(":")) =>
              LastHandled = Some(EnterMode(ExecuteDefault))
        /\ (mode.input_buffer = <<>> /\ LastKey = KeyChar("i")) =>
              LastHandled = Some(EnterMode(InsertDefault))
        /\ LastKey = Key("Home") => LastHandled = Some(Msg("MoveCursorLineStart"))
        /\ LastKey = Key("End") => LastHandled = Some(Msg("MoveCursorLineEnd"))
        /\ LastKey = Key("PageUp") => LastHandled = Some(Msg("MoveCursorPageUp"))
        /\ LastKey = Key("PageDown") => LastHandled = Some(Msg("MoveCursorPageDown"))
        /\ LastKey = Key("Insert") => LastHandled = Some(EnterMode(InsertDefault))
        /\ LastKey = Key("Enter") => LastHandled = Some(MsgN("MoveCursorDown", 1))
        /\ LastKey \in {Key(k) : k \in {"Home", "End", "PageUp", "PageDown", "Insert",
                                         "Enter"}} => mode' = mode]_vars

\* Enter after a digit, and ':' after that, have been handled
C24_Witness ==
    /\ Len(keys_fed) = 3
    /\ keys_fed[1] = KeyChar("3")
    /\ keys_fed[2] = Key("Enter")
    /\ handled[2] = Some(MsgN("MoveCursorDown", 1))
    /\ keys_fed[3] = KeyChar(":")
    /\ handled[3] = Some(EnterMode(ExecuteDefault))

(***************************************************************************)
(* Properties of Rect.                                                     *)
(***************************************************************************)
\* C25: for a Rect with width and height of at least 1, right() is
\* position.col + width - 1, bottom() is position.row + height - 1, and
\* contains(p) holds exactly when p.col is from left() to right() and p.row
\* from top() to bottom(), ends included, counted from the Rect's position.
C25_RectEdgesInclusive ==
    call.op = "contains" =>
        /\ call.left = subject.position.col
        /\ call.top = subject.position.row
        /\ call.right = subject.position.col + subject.width - 1
        /\ call.bottom = subject.position.row + subject.height - 1
        /\ call.contains <=>
              /\ subject.position.col <= call.position.col
              /\ call.position.col < subject.position.col + subject.width
              /\ subject.position.row <= call.position.row
              /\ call.position.row < subject.position.row + subject.height

\* the last cell of a Rect that does not start at the origin is contained
C25_Witness ==
    /\ call.op = "contains"
    /\ call.contains
    /\ subject.position.col > 0
    /\ subject.width > 1
    /\ call.position.col = call.right
    /\ call.position.row = call.bottom

(***************************************************************************)
(* Further properties of Row.                                              *)
(***************************************************************************)
\* the number of grapheme clusters of a string: one for every character
\* that is not a combining mark, and one for a combining mark that has no
\* character before it
GraphemeCount(r) ==
    Cardinality({i \in 1..Len(r) : r[i] \notin Extend})
        + (IF r # <<>> /\ r[1] \in Extend THEN 1 ELSE 0)

\* C26: for every Row built from a string, len() is the number of grapheme
\* clusters of the string (not of its bytes or scalar values), and insert,
\* delete and split take their position as an index of grapheme clusters:
\* insert puts the character between the clusters before and from the
\* index, delete removes the cluster at the index, split divides the row
\* between the clusters before and from the index.
C26_LenCountsGraphemes ==
    /\ call.op = "none" => RowLen(subject) = GraphemeCount(subject)
    /\ call.op = "insert" =>
          subject = GraphemeSlice(call.before, 0, call.at) \o <<call.ch>>
                        \o GraphemeSlice(call.before, call.at, GraphemeCount(call.before))
    /\ call.op = "delete" =>
          subject = IF call.at >= GraphemeCount(call.before) THEN call.before
                    ELSE Concat(RemoveAt(Graphemes(call.before), call.at + 1))
    /\ call.op = "split" =>
          /\ subject \o call.tail = call.before
          /\ RowLen(subject) = Min(call.at, GraphemeCount(call.before))

\* a delete at index 0 has removed a cluster of two scalar values (three
\* bytes) from a row of two clusters
C26_Witness ==
    /\ call.op = "delete"
    /\ call.at = 0
    /\ Len(call.before) = 3
    /\ ByteLen(call.before) = 4
    /\ RowLen(call.before) = 2
    /\ Len(subject) = 1

(***************************************************************************)
(* Further properties of the loop of Editor::consume.                      *)
(***************************************************************************)
\* the Window as Window::update routes the next message: after the
\* EnterMode interception at its head
RoutingWindow == WindowEnterMode(root_component, Head(msg_rx))

\* the loop can take the message arm and will pass the message to the Window
MessageForWindow ==
    /\ pc = "select"
    /\ msg_rx # <<>>
    /\ Head(msg_rx).type # "ParseCommandLineInput"

\* C27: whenever a message is about to be routed to the active buffer (the
\* Window's mode is not Execute), the buffer list is not empty and
\* active_buffer_idx is an index into it.
C27_BufferExistsWhenRouted ==
    (MessageForWindow /\ RoutingWindow.mode.kind # "Execute") =>
        RoutingWindow.active_buffer_idx < Len(RoutingWindow.buffers)

\* the last step of the loop was its message arm, and it ran to its end
MessageProcessed == iter.arm \in {"message", "parse"} /\ pc \in {"select", "returned"}

\* C28: after the loop has processed a message, the Editor's mode and the
\* Window's mode are the same variant.
C28_ModesAgree ==
    MessageProcessed => mode.kind = root_component.mode.kind



\* Esc was pressed in Insert or Execute mode and its message waits in the
\* message channel: only Execute yields AbortCommandLineInput, and Insert is
\* the mode whose Esc yields EnterMode(Normal)
EscPending ==
    \E i \in 1..Len(msg_rx) :
        \/ msg_rx[i].type = "AbortCommandLineInput"
        \/ mode.kind = "Insert" /\ msg_rx[i] = EnterMode(NormalDefault)

\* the editor is back in Normal mode in both places, the command line is
\* empty and the loop waits at its select, neither ended nor panicked
BackInNormal ==
    /\ mode.kind = "Normal"
    /\ root_component.mode.kind = "Normal"
    /\ root_component.command_prompt.value = <<>>
    /\ pc = "select"
    /\ result = None

\* C29: under fair scheduling, once Esc was pressed in Insert or Execute mode
\* (every earlier key's work done before it), the editor comes back to Normal
\* mode in the Editor and in the Window, with an empty command line and the
\* loop still running, unless a later key arrives or an I/O error is reported.
C29_EscReturnsToNormal ==
    \A n \in 0..MaxEvents :
        (EscPending /\ progress.orderly /\ progress.typed = n)
            ~> (BackInNormal \/ progress.typed > n \/ err_rx # <<>>
                    \/ result.type = "Err")


\* a message that changes the mode when the loop processes it
ChangesMode(m) == m.type \in {"EnterMode", "ParseCommandLineInput"}

\* a mode-changing message is on its way to the loop: in the message channel,
\* held by a task waiting for a permit, or behind a command not yet run
ModeChangePending ==
    \/ \E i \in 1..Len(msg_rx) : ChangesMode(msg_rx[i])
    \/ \E i \in 1..Len(msg_senders) : ChangesMode(msg_senders[i])
    \/ \E i \in 1..Len(cmd_rx) : ChangesMode(RunCommand(cmd_rx[i]))
    \/ \E c \in BagToSet(tasks) : ChangesMode(RunCommand(c))

\* this step is the event arm handing a key to the current mode: the stream
\* yielded an event and the mode changed, a message was sent for it, or the
\* send of its message blocked (the error channel had room, so the blocked
\* send is not that of a read failure)
KeyHandled ==
    /\ progress'.typed = progress.typed + 1
    /\ \/ mode' # mode
       \/ msg_rx' # msg_rx
       \/ pc' = "stuck" /\ Len(err_rx) < ChannelCapacity

\* C30: the loop never hands a key event to the mode while a mode-changing
\* message produced by an earlier key is still unprocessed.
C30_KeysSeeSettledMode ==
    [][KeyHandled => ~ModeChangePending]_vars

\* the last call was a Buffer.update that ran to its end (Ok(None))
BufferUpdated == call.op = "update" /\ call.status = "ok"

\* C31: after every Buffer.update the cursor is inside the window given by
\* the recomputed offset: offset.row <= cursor.row < offset.row +
\* (viewport.height - 2) and offset.col <= cursor.col < offset.col +
\* viewport.width.
C31_CursorInsideWindow ==
    BufferUpdated =>
        LET b == subject.buffer
        IN  /\ b.offset.row <= b.cursor_position.row
            /\ b.cursor_position.row < b.offset.row + (b.viewport.height - 2)
            /\ b.offset.col <= b.cursor_position.col
            /\ b.cursor_position.col < b.offset.col + b.viewport.width

\* the last call was a Buffer.update with a cursor move or an edit
BufferEdited == call.op = "update" /\ call.msg.type \notin {"Save", "SaveAs"}

\* C32: after any sequence of cursor moves and edits applied to a Buffer the
\* update succeeded (no underflow, no out-of-range insert) and the cursor is
\* within the document: cursor.row <= row count and cursor.col <= grapheme
\* length of the row at cursor.row (0 when there is no such row).
C32_CursorInsideDocument ==
    BufferEdited =>
        LET b == subject.buffer
        IN  /\ call.status = "ok"
            /\ b.cursor_position.row <= DocLen(b.document)
            /\ b.cursor_position.col <= DocRowLenOr0(b.document, b.cursor_position.row)

\* the last call was update(DeleteCharBackward) with the cursor at column 0
\* of a row r, 0 < r < row count
BackspaceAtRowStart ==
    /\ call.op = "update"
    /\ call.msg.type = "DeleteCharBackward"
    /\ call.before.buffer.cursor_position.col = 0
    /\ call.before.buffer.cursor_position.row > 0
    /\ call.before.buffer.cursor_position.row < DocLen(call.before.buffer.document)

\* C33: DeleteCharBackward with the cursor at column 0 of row r, 0 < r < row
\* count, joins row r onto the end of row r-1: one row less, the
\* concatenation of all rows unchanged, the cursor at (old length of row
\* r-1, r-1).
C33_BackspaceJoinsRows ==
    BackspaceAtRowStart =>
        LET old == call.before.buffer
            r == old.cursor_position.row
            now == subject.buffer
        IN  /\ call.status = "ok"
            /\ DocLen(now.document) = DocLen(old.document) - 1
            /\ Concat(now.document.rows) = Concat(old.document.rows)
            /\ now.cursor_position = Position(RowLen(old.document.rows[r]), r - 1)

\* the write_line calls of `lines`, made in order on the frame f, each end
\* without panic and leave every cell outside the row written as it was
RECURSIVE LinesStayInRows(_, _)
LinesStayInRows(f, lines) ==
    IF lines = <<>> THEN TRUE
    ELSE Bind(FrameWriteLine(f, Head(lines).row_number, Head(lines).string,
                             Head(lines).foreground, Head(lines).background), LAMBDA r :
            /\ r.status = "ok"
            /\ \A i \in 1..Len(f.cells) :
                  f.cells[i].position.row # Head(lines).row_number
                      => r.frame.cells[i] = f.cells[i]
            /\ LinesStayInRows(r.frame, Tail(lines)))

\* C34: every write_line issued by Window.render_to targets a row inside the
\* frame and changes only cells of that row.
C34_WritesStayInRow ==
    call.op = "key" =>
        \A i \in 1..Len(call.renders) :
            LinesStayInRows(call.renders[i].frame, call.renders[i].lines)

\* this step is the message arm of the loop taking the message at the head
\* of the message channel
MessageArmStep ==
    /\ pc = "select"
    /\ msg_rx # <<>>
    /\ iter'.arm \in {"message", "parse"}
    /\ tasks' = tasks
    /\ progress' = progress

\* the message arm hands EndCommandLineInput to the command line
EndCommandLineStep ==
    /\ MessageArmStep
    /\ Head(msg_rx).type = "EndCommandLineInput"
    /\ root_component.mode.kind = "Execute"

\* the message arm takes a ParseCommandLineInput
ParseCommandLineStep == MessageArmStep /\ Head(msg_rx).type = "ParseCommandLineInput"

\* C35: on EndCommandLineInput the command line returns one command whose
\* message is ParseCommandLineInput(v), v the characters of the command line
\* at that moment, and resets to an empty value with cursor 0; on
\* ParseCommandLineInput(v) the loop parses v, sets the Editor's mode to
\* Normal and enqueues the parsed message, if any.
C35_EndParsesCommandLine ==
    [][/\ EndCommandLineStep =>
            /\ root_component'.command_prompt.value = <<>>
            /\ root_component'.command_prompt.cursor_position = 0
            /\ \/ cmd_rx' = Append(cmd_rx, wrap(ParseCommandLineInput(
                                                   root_component.command_prompt.value)))
               \/ Len(cmd_rx) = ChannelCapacity /\ cmd_rx' = cmd_rx /\ pc' = "stuck"
       /\ ParseCommandLineStep =>
            /\ mode'.kind = "Normal"
            /\ \A parsed \in {ExecuteParse(Head(msg_rx).input)} :
                  parsed.type = "Some" =>
                      \/ /\ msg_rx' # <<>>
                         /\ msg_rx'[Len(msg_rx')] = parsed.msg
                      \/ pc' = "stuck"]_vars

(***************************************************************************)
(* C36: unmatched keys and unparsable command lines                        *)
(***************************************************************************)
\* a key of Normal mode that starts or ends no key sequence of the grammar
UnmatchedPressed ==
    /\ call.op = "press"
    /\ call.before.mode.kind = "Normal"
    /\ call.key \in {KeyChar("w"), KeyChar("3"), Key("Tab")}

\* Enter on a command line that is no command
UnparsableEntered ==
    /\ call.op = "press"
    /\ call.before.mode.kind = "Execute"
    /\ call.key = Key("Enter")
    /\ ExecuteParse(RowContents(call.before.window.command_prompt.value)).type = "None"

\* C36: a key sequence of Normal mode that matches nothing produces no
\* message and no error and leaves Normal's input buffer empty; Enter on a
\* command line that parses to nothing produces the End and the Parse
\* message and nothing after them, raises no error and leaves the value of
\* the command line empty.
C36_UnmatchedIsIgnored ==
    /\ UnmatchedPressed =>
          /\ call.messages = <<>>
          /\ call.status = "ok"
          /\ subject.mode.kind = "Normal"
          /\ subject.mode.input_buffer = <<>>
          /\ subject.window = call.before.window
    /\ UnparsableEntered =>
          /\ call.messages
                = <<Msg("EndCommandLineInput"),
                    ParseCommandLineInput(RowContents(call.before.window.command_prompt.value))>>
          /\ call.status = "ok"
          /\ subject.window.command_prompt.value = <<>>

\* "x" was entered on the command line of a window that has a buffer
C36_Witness ==
    /\ UnparsableEntered
    /\ call.before.window.command_prompt.value = <<"x">>
    /\ call.before.window.buffers # <<>>

(***************************************************************************)
(* C37: the buffer opened on entering Insert mode                          *)
(***************************************************************************)
\* the key made the loop process EnterMode(Insert) and nothing else
InsertEntered ==
    /\ call.op = "press"
    /\ call.messages = <<EnterMode(InsertDefault)>>

\* the work of the key ended with an EnterMode message, and no message of it
\* was one for the buffer
ModeEntered ==
    /\ call.op = "press"
    /\ call.messages # <<>>
    /\ call.messages[Len(call.messages)].type = "EnterMode"

\* C37: EnterMode(Insert) with no buffer opens exactly one buffer, over a
\* blank document (one empty row, no file name) with the cursor at (0,0),
\* and with a buffer it opens none; there is never more than one buffer and
\* never fewer than before; no EnterMode changes the document of a buffer
\* that exists.
C37_OneBlankBuffer ==
    /\ Len(subject.window.buffers) <= 1
    /\ call.op = "press" =>
          Len(subject.window.buffers) >= Len(call.before.window.buffers)
    /\ (InsertEntered /\ call.before.window.buffers = <<>>) =>
          /\ Len(subject.window.buffers) = 1
          /\ subject.window.buffers[1].document = [file_name |-> None, rows |-> <<<<>>>>]
          /\ subject.window.buffers[1].cursor_position = Position(0, 0)
    /\ (InsertEntered /\ call.before.window.buffers # <<>>) =>
          Len(subject.window.buffers) = Len(call.before.window.buffers)
    /\ (ModeEntered /\ call.before.window.buffers # <<>>) =>
          subject.window.buffers[1].document = call.before.window.buffers[1].document

\* Insert mode is entered again over a document that has text
C37_Witness ==
    /\ InsertEntered
    /\ call.before.window.buffers # <<>>
    /\ call.before.window.buffers[1].document.rows # <<<<>>>>
    /\ subject.window.mode.kind = "Insert"

(***************************************************************************)
(* C38: the cursor of the command line                                     *)
(***************************************************************************)
\* C38: after every key the cursor of the command-line input is at least 0
\* and at most the length of its value.
C38_CursorInsideValue ==
    /\ subject.window.command_prompt.cursor_position >= 0
    /\ subject.window.command_prompt.cursor_position
          <= RowLen(subject.window.command_prompt.value)

(***************************************************************************)
(* C39: deleting on the command line                                       *)
(***************************************************************************)
\* Backspace or Delete was typed on the command line
DeletePressed ==
    /\ call.op = "press"
    /\ call.before.mode.kind = "Execute"
    /\ call.key \in {Key("Backspace"), Key("Delete")}

\* the command line was left: the input is reset and EnterMode(Normal) was
\* sent
LeftCommandLine ==
    /\ Len(call.messages) = 2
    /\ call.messages[2] = EnterMode(NormalDefault)

\* C39: a delete on the command line removes at most one grapheme; the
\* command line is left (input reset, EnterMode(Normal) sent) only when no
\* character remains after the deletion; while one remains the input stays
\* active and its value is the old one less the deleted grapheme.
C39_DeleteLeavesWhenEmpty ==
    DeletePressed =>
        LET old == call.before.window.command_prompt.value
            at  == IF call.key = Key("Delete")
                   THEN call.before.window.command_prompt.cursor_position
                   ELSE SatSub(call.before.window.command_prompt.cursor_position, 1)
            rest == RowDelete(old, at)
        IN  /\ RowLen(rest) >= RowLen(old) - 1
            /\ IF RowLen(rest) = 0
               THEN /\ LeftCommandLine
                    /\ subject.window.command_prompt.value = <<>>
               ELSE /\ ~LeftCommandLine
                    /\ subject.mode.kind = "Execute"
                    /\ subject.window.command_prompt.value = rest

(***************************************************************************)
(* C40: the screen follows the frames                                      *)
(***************************************************************************)
\* a render all of whose canvas calls succeeded
RenderSucceeded ==
    /\ call.op = "render"
    /\ call.status = "ok"

\* C40: after every render whose canvas calls all succeed, the screen made
\* of all the cells drawn so far on a blank screen equals the frame just
\* rendered, cell for cell, and the frame the next render diffs against is
\* that frame.
C40_ScreenEqualsFrame ==
    RenderSucceeded =>
        /\ call.screen = RenderedFrame.cells
        /\ PreviousFrame(subject) = RenderedFrame

\* the third render writes nothing into a frame whose last row still has the
\* colours of the status line written two renders before
C40_Witness ==
    /\ RenderSucceeded
    /\ call.n = 3
    /\ call.view.lines = <<>>
    /\ \E i \in 1..Len(call.screen) :
          /\ call.screen[i].symbol = <<" ">>
          /\ call.screen[i].background # "Reset"

====
